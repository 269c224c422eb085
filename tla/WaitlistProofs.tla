---------------------------- MODULE WaitlistProofs ----------------------------
(***************************************************************************)
(* What the rows of the waitlist say of the mail, proved for any number of *)
(* addresses, of calls that overlap, and of receipts.                      *)
(***************************************************************************)
EXTENDS Waitlist, TLAPS

\* Only a call whose mail was taken goes on to write that down.
AcceptedIsMailed == \A a \in Addresses, s \in Slots : pc[a][s] = "accepted" => mails[a] > 0

\* Where calls do not overlap, an address has one that runs, and it sends only
\* the first receipt.
OneCall == "overlap" \notin faults =>
  \A a \in Addresses : \A s, r \in Slots : pc[a][s] # "over" /\ pc[a][r] # "over" => s = r
FirstOfItsKind == Unwritten \cup Unseen = {} =>
  \A a \in Addresses, s \in Slots : pc[a][s] = "sending" => mails[a] = 0

IInv == /\ TypeOK
        /\ MailedIfSent
        /\ AcceptedIsMailed
        /\ SentIfMailed
        /\ OneCall
        /\ FirstOfItsKind
        /\ OneReceipt

-----------------------------------------------------------------------------
(* The steps of one call *)

\* A call that starts is the only one where calls do not overlap.
LEMMA StartKeeps ==
  ASSUME IInv, NEW a \in Addresses, NEW s \in Slots, Start(a, s), queue' \in [Addresses -> BOOLEAN]
  PROVE  IInv'
<1> USE DEF IInv, Start
<1>1. TypeOK'
  BY DEF TypeOK, Stages
<1>2. /\ MailedIfSent' /\ OneReceipt'
  BY DEF MailedIfSent, OneReceipt, Unwritten, Unseen
<1>3. AcceptedIsMailed' /\ FirstOfItsKind'
  BY DEF TypeOK, AcceptedIsMailed, FirstOfItsKind, Unwritten, Unseen
<1>4. SentIfMailed'
  BY DEF TypeOK, SentIfMailed, Unwritten
<1>5. OneCall'
  BY DEF TypeOK, OneCall
<1> QED BY <1>1, <1>2, <1>3, <1>4, <1>5

\* Without overlap and with a select that works, a call gets to "sending" only
\* where no receipt went out: one that went out is marked, or about to be marked
\* by a call that would be this one.
LEMMA CheckKeeps ==
  ASSUME IInv, NEW a \in Addresses, NEW s \in Slots, Check(a, s)
  PROVE  IInv'
<1>1. PICK p \in {"over", "sending"} :
        /\ pc[a][s] = "checking" /\ pc' = [pc EXCEPT ![a][s] = p]
        /\ p = "sending" => ~row[a].sent \/ "select" \in faults
  BY DEF Check, Goto, AlreadySent
<1>2. UNCHANGED <<faults, configured, row, queue, mails>>
  BY DEF Check, Goto
<1>3. pc' \in [Addresses -> [Slots -> Stages]]
  BY <1>1 DEF IInv, TypeOK, Stages
<1>4. /\ pc'[a][s] = p
      /\ \A b \in Addresses, r \in Slots : b # a \/ r # s => pc'[b][r] = pc[b][r]
  BY <1>1 DEF IInv, TypeOK
<1>5. TypeOK'
  BY <1>2, <1>3 DEF IInv, TypeOK
<1>6. MailedIfSent' /\ OneReceipt'
  BY <1>2 DEF IInv, MailedIfSent, OneReceipt, Unwritten, Unseen
<1>7. AcceptedIsMailed'
  BY <1>2, <1>4 DEF IInv, AcceptedIsMailed
<1>8. SentIfMailed'
  BY <1>1, <1>2, <1>4 DEF IInv, SentIfMailed, Unwritten
<1>9. OneCall'
  BY <1>1, <1>2, <1>4 DEF IInv, OneCall
<1>10. FirstOfItsKind'
  <2> SUFFICES ASSUME Unwritten \cup Unseen = {}, NEW b \in Addresses, NEW r \in Slots,
                      pc'[b][r] = "sending"
               PROVE  mails[b] = 0
    BY <1>2 DEF FirstOfItsKind, Unwritten, Unseen
  <2>1. CASE b # a \/ r # s
    BY <1>4, <2>1 DEF IInv, FirstOfItsKind
  <2>2. CASE b = a /\ r = s
    <3>1. ~row[a].sent
      BY <1>1, <1>4, <2>2 DEF Unseen
    <3>2. \A q \in Slots : pc[a][q] # "accepted"
      BY <1>1 DEF IInv, OneCall, Unseen
    <3> QED BY <2>2, <3>1, <3>2 DEF IInv, TypeOK, SentIfMailed
  <2> QED BY <2>1, <2>2
<1> QED BY <1>5, <1>6, <1>7, <1>8, <1>9, <1>10 DEF IInv

\* The receipt that goes out is the first, and the call is about to write it down.
LEMMA SendKeeps ==
  ASSUME IInv, NEW a \in Addresses, NEW s \in Slots, Send(a, s)
  PROVE  IInv'
<1> DEFINE Mailed == mails' = [mails EXCEPT ![a] = @ + 1]
<1>0. PICK p \in {"accepted", "rejected", "over"} :
        /\ pc[a][s] = "sending" /\ pc' = [pc EXCEPT ![a][s] = p]
        /\ \/ Mailed /\ (p = "accepted" \/ "unanswered" \in faults)
           \/ mails' = mails /\ p # "accepted"
  BY DEF Send, Goto, NotOk
<1>1. /\ pc[a][s] = "sending" /\ pc'[a][s] = p
      /\ \A b \in Addresses, r \in Slots : b # a \/ r # s => pc'[b][r] = pc[b][r]
  BY <1>0 DEF IInv, TypeOK
<1>2. /\ mails[a] \in Nat /\ (Mailed => mails'[a] = mails[a] + 1)
      /\ \A b \in Addresses : mails[b] \in Nat /\ (b # a => mails'[b] = mails[b])
  <2>1. CASE Mailed
    BY <2>1 DEF IInv, TypeOK
  <2>2. CASE mails' = mails
    BY <2>2 DEF IInv, TypeOK
  <2> QED BY <1>0, <2>1, <2>2
<1>3. \A b \in Addresses : b # a \/ ~Mailed => mails'[b] = mails[b]
  BY <1>0, <1>2
<1>5. UNCHANGED <<faults, configured, row, queue>>
  BY DEF Send, Goto
<1>6. TypeOK'
  <2>1. pc' \in [Addresses -> [Slots -> Stages]]
    BY <1>0 DEF IInv, TypeOK, Stages
  <2>2. mails' \in [Addresses -> Nat]
    BY <1>0 DEF IInv, TypeOK
  <2> QED BY <1>5, <2>1, <2>2 DEF IInv, TypeOK
<1>7. MailedIfSent' /\ AcceptedIsMailed'
  <2>1. \A b \in Addresses : mails[b] > 0 => mails'[b] > 0
    BY <1>2, <1>3
  <2>2. p = "accepted" => mails'[a] > 0
    BY <1>0, <1>2
  <2> QED BY <1>1, <1>5, <2>1, <2>2 DEF IInv, MailedIfSent, AcceptedIsMailed
<1>8. SentIfMailed'
  <2> SUFFICES ASSUME Unwritten = {}, NEW b \in Addresses, mails'[b] > 0, ~row[b].sent
               PROVE  \E r \in Slots : pc'[b][r] = "accepted"
    BY <1>5 DEF SentIfMailed, Unwritten
  <2>1. CASE b = a /\ Mailed
    <3>1. "unanswered" \notin faults
      BY DEF Unwritten
    <3>2. mails' # mails
      BY <1>2, <2>1
    <3>3. pc'[a][s] = "accepted"
      BY <1>0, <1>1, <3>1, <3>2
    <3> QED BY <2>1, <3>3
  <2>2. CASE b # a \/ ~Mailed
    <3>1. PICK r \in Slots : pc[b][r] = "accepted"
      BY <1>3, <2>2 DEF IInv, SentIfMailed
    <3> QED BY <1>1, <3>1
  <2> QED BY <2>1, <2>2
<1>9. OneCall'
  BY <1>1, <1>5 DEF IInv, OneCall
<1>10. FirstOfItsKind' /\ OneReceipt'
  <2> SUFFICES ASSUME Unwritten \cup Unseen = {}
               PROVE  /\ \A b \in Addresses, r \in Slots : pc'[b][r] = "sending" => mails'[b] = 0
                      /\ \A b \in Addresses : mails'[b] <= 1
    BY <1>5 DEF FirstOfItsKind, OneReceipt, Unwritten, Unseen
  <2>1. \A r \in Slots : pc'[a][r] # "sending"
    BY <1>0, <1>1 DEF IInv, OneCall, Unseen
  <2>2. mails[a] = 0
    BY <1>1 DEF IInv, FirstOfItsKind
  <2>3. mails'[a] <= 1
    BY <1>0, <1>2, <2>2
  <2>4. \A b \in Addresses : b # a => mails'[b] <= 1
    BY <1>3 DEF IInv, OneReceipt
  <2>5. \A b \in Addresses, r \in Slots : b # a /\ pc'[b][r] = "sending" => mails'[b] = 0
    BY <1>1, <1>3 DEF IInv, FirstOfItsKind
  <2> QED BY <2>1, <2>3, <2>4, <2>5
<1> QED BY <1>6, <1>7, <1>8, <1>9, <1>10 DEF IInv

\* Neither outcome takes a sent mark back.
LEMMA RecordKeeps ==
  ASSUME IInv, NEW a \in Addresses, NEW s \in Slots, Record(a, s)
  PROVE  IInv'
<1>1. /\ pc[a][s] \in {"accepted", "rejected"} /\ pc'[a][s] = "over"
      /\ \A b \in Addresses, r \in Slots : b # a \/ r # s => pc'[b][r] = pc[b][r]
  BY DEF IInv, TypeOK, Record, Goto
<1>2. mails' = mails /\ faults' = faults
  BY DEF Record, Goto
<1>3. \A b \in Addresses : /\ row[b].sent => row'[b].sent
                           /\ row'[b].sent => row[b].sent \/ (b = a /\ pc[a][s] = "accepted")
  <2>1. CASE row' = row
    BY <2>1
  <2>2. CASE row' = [row EXCEPT ![a] = WithSent(@)] /\ pc[a][s] = "accepted"
    <3>1. \A b \in Addresses : b # a => row'[b] = row[b]
      BY <2>2 DEF IInv, TypeOK
    <3>2. row'[a].sent
      BY <2>2 DEF IInv, TypeOK, WithSent
    <3> QED BY <2>2, <3>1, <3>2
  <2>3. CASE row' = [row EXCEPT ![a] = WithError(@)] /\ pc[a][s] = "rejected"
    <3>1. \A b \in Addresses : b # a => row'[b] = row[b]
      BY <2>3 DEF IInv, TypeOK
    <3>2. row'[a].sent = row[a].sent
      BY <2>3 DEF IInv, TypeOK, WithError
    <3> QED BY <3>1, <3>2
  <2> QED BY <2>1, <2>2, <2>3 DEF Record
<1>4. pc[a][s] = "accepted" /\ "update" \notin faults => row'[a].sent
  <2> SUFFICES ASSUME "update" \notin faults, pc[a][s] = "accepted" PROVE row'[a].sent
    OBVIOUS
  <2>1. row' = [row EXCEPT ![a] = WithSent(@)]
    BY DEF Record
  <2> QED BY <2>1 DEF IInv, TypeOK, WithSent
<1>5. TypeOK'
  BY DEF IInv, TypeOK, Record, Goto, WithSent, WithError, Stages
<1>6. MailedIfSent' /\ AcceptedIsMailed'
  BY <1>1, <1>2, <1>3 DEF IInv, MailedIfSent, AcceptedIsMailed
<1>7. SentIfMailed'
  <2> SUFFICES ASSUME Unwritten = {}, NEW b \in Addresses, mails[b] > 0, ~row'[b].sent
               PROVE  \E r \in Slots : pc'[b][r] = "accepted"
    BY <1>2 DEF SentIfMailed, Unwritten
  <2>0. ~row[b].sent
    BY <1>3
  <2>1. PICK r \in Slots : pc[b][r] = "accepted"
    BY <2>0 DEF IInv, SentIfMailed
  <2>2. b # a \/ r # s
    BY <1>4, <2>1 DEF Unwritten
  <2> QED BY <1>1, <2>1, <2>2
<1>8. OneCall' /\ FirstOfItsKind' /\ OneReceipt'
  BY <1>1, <1>2 DEF IInv, OneCall, FirstOfItsKind, OneReceipt, Unwritten, Unseen
<1> QED BY <1>5, <1>6, <1>7, <1>8 DEF IInv

\* A call that is ended leaves the row and the mail alone.
LEMMA KillKeeps ==
  ASSUME IInv, NEW a \in Addresses, NEW s \in Slots, Kill(a, s)
  PROVE  IInv'
<1> USE DEF IInv, Kill, Goto
<1>1. TypeOK'
  BY DEF TypeOK, Stages
<1>2. MailedIfSent' /\ AcceptedIsMailed'
  BY DEF TypeOK, MailedIfSent, AcceptedIsMailed
<1>3. SentIfMailed'
  BY DEF SentIfMailed, Unwritten
<1>4. OneCall' /\ FirstOfItsKind' /\ OneReceipt'
  BY DEF TypeOK, OneCall, FirstOfItsKind, OneReceipt, Unwritten, Unseen
<1> QED BY <1>1, <1>2, <1>3, <1>4

-----------------------------------------------------------------------------
(* The theorems *)

\* The invariant that the others follow from holds for any number of addresses,
\* calls and receipts (supabase/).
THEOREM WaitlistInductive == Spec => []IInv
<1>1. Init => IInv
  BY DEF Init, NoRow, IInv, TypeOK, Stages, MailedIfSent, AcceptedIsMailed, SentIfMailed, OneCall,
         FirstOfItsKind, OneReceipt
<1>2. IInv /\ [Next]_vars => IInv'
  <2> SUFFICES ASSUME IInv, [Next]_vars PROVE IInv'
    OBVIOUS
  <2> DEFINE Said == /\ AcceptedIsMailed /\ OneCall /\ FirstOfItsKind /\ OneReceipt
  <2>1. CASE Configure \/ UNCHANGED vars
    <3>1. /\ UNCHANGED <<faults, row, queue, pc, mails>> /\ configured' \in BOOLEAN
      BY <2>1 DEF IInv, TypeOK, Configure, vars
    <3>2. TypeOK'
      BY <3>1 DEF IInv, TypeOK
    <3>3. MailedIfSent' /\ SentIfMailed'
      BY <3>1 DEF IInv, MailedIfSent, SentIfMailed, Unwritten
    <3>4. Said'
      BY <3>1 DEF IInv, AcceptedIsMailed, OneCall, FirstOfItsKind, OneReceipt, Unwritten, Unseen
    <3> QED BY <3>2, <3>3, <3>4 DEF IInv
  <2>2. CASE ClearErrors
    <3>1. TypeOK'
      BY <2>2 DEF IInv, ClearErrors, TypeOK
    <3>2. \A a \in Addresses : row'[a].sent = row[a].sent
      BY <2>2 DEF IInv, ClearErrors, TypeOK
    <3>3. MailedIfSent' /\ SentIfMailed'
      BY <2>2, <3>2 DEF IInv, ClearErrors, MailedIfSent, SentIfMailed, Unwritten
    <3>4. Said'
      BY <2>2 DEF IInv, ClearErrors, AcceptedIsMailed, OneCall, FirstOfItsKind, OneReceipt,
                  Unwritten, Unseen
    <3> QED BY <3>1, <3>3, <3>4 DEF IInv
  <2>3. ASSUME NEW a \in Addresses, Join(a) PROVE IInv'
    <3>1. TypeOK'
      BY <2>3 DEF IInv, Join, TypeOK, Posted
    <3>2. \A b \in Addresses : row'[b].sent = row[b].sent
      BY <2>3 DEF IInv, Join, TypeOK
    <3>3. MailedIfSent' /\ SentIfMailed'
      BY <2>3, <3>2 DEF IInv, Join, MailedIfSent, SentIfMailed, Unwritten
    <3>4. Said'
      BY <2>3 DEF IInv, Join, AcceptedIsMailed, OneCall, FirstOfItsKind, OneReceipt,
                  Unwritten, Unseen
    <3> QED BY <3>1, <3>3, <3>4 DEF IInv
  <2>4. ASSUME NEW a \in Addresses, Lose(a) PROVE IInv'
    BY <2>4 DEF IInv, Lose, TypeOK, MailedIfSent, AcceptedIsMailed, SentIfMailed,
                OneCall, FirstOfItsKind, OneReceipt, Unwritten, Unseen
  <2>5. ASSUME NEW a \in Addresses, NEW s \in Slots, Deliver(a, s) \/ Redeliver(a, s) PROVE IInv'
    <3>1. Start(a, s) /\ queue' \in [Addresses -> BOOLEAN]
      BY <2>5 DEF IInv, TypeOK, Deliver, Redeliver
    <3> QED BY <3>1, StartKeeps
  <2>6. ASSUME NEW a \in Addresses, NEW s \in Slots, Handler(a, s) \/ Kill(a, s) PROVE IInv'
    BY <2>6, CheckKeeps, SendKeeps, RecordKeeps, KillKeeps DEF Handler
  <2> QED BY <2>1, <2>2, <2>3, <2>4, <2>5, <2>6 DEF Next, Delivery
<1> QED BY <1>1, <1>2, PTL DEF Spec

\* A row is marked as sent only when the provider took a receipt for it, under
\* every fault (send-waitlist-email/index.ts).
THEOREM MarksTrue == Spec => []MailedIfSent
<1>1. IInv => MailedIfSent
  BY DEF IInv
<1> QED BY <1>1, WaitlistInductive, PTL

\* A receipt that went out is marked, or a call is about to mark it, unless the
\* marking itself met a fault (send-waitlist-email/index.ts).
THEOREM MarksWritten == Spec => []SentIfMailed
<1>1. IInv => SentIfMailed
  BY DEF IInv
<1> QED BY <1>1, WaitlistInductive, PTL

\* However often the call for a row is made, its receipt goes out once, where
\* calls do not overlap and the mark is read and written (index.ts:78-79).
THEOREM MailedOnce == Spec => []OneReceipt
<1>1. IInv => OneReceipt
  BY DEF IInv
<1> QED BY <1>1, WaitlistInductive, PTL
=============================================================================
