------------------------------- MODULE Waitlist -------------------------------
(***************************************************************************)
(* The waitlist (supabase/): a signup makes a row, the row's trigger       *)
(* queues a call of the send-waitlist-email function, and the function     *)
(* mails the receipt and writes down the outcome.  pg_net and the operator *)
(* may make a call again, and calls for one row may overlap.               *)
(***************************************************************************)
EXTENDS Naturals

CONSTANTS Addresses,      \* as join_waitlist has normalised them
          Slots,          \* bound: calls for one row that run at a time
          MaxMails,       \* bound: no call starts once so many receipts went out
          Scenarios       \* sets of faults: a behaviour meets those of one

\* Calls for one row overlap, pg_net loses a call, the provider's key is not set
\* for one, the select or the update fails, the provider rejects the mail, cannot
\* be reached, or its answer is lost or cut short, the platform ends a call.
FaultNames == {"overlap", "lost", "no_key", "select", "update", "reject",
               "unreachable", "unanswered", "kill"}
ASSUME WaitlistAssumption == MaxMails \in Nat /\ Scenarios \subseteq SUBSET FaultNames

VARIABLES faults,       \* those that can happen, which never change
          configured,   \* the secrets of the trigger are in the vault
          row,          \* row[a]: it exists, its confirmation_sent_at and _error are set
          queue,        \* queue[a]: pg_net has a call for a still to make
          pc,           \* pc[a][s]: how far the call for a in slot s is
          mails         \* history: receipts the provider has taken for a
vars == <<faults, configured, row, queue, pc, mails>>

NoRow == [exists |-> FALSE, sent |-> FALSE, error |-> FALSE]

Init == /\ faults \in Scenarios
        /\ configured \in BOOLEAN
        /\ row = [a \in Addresses |-> NoRow]
        /\ queue = [a \in Addresses |-> FALSE]
        /\ pc = [a \in Addresses |-> [s \in Slots |-> "over"]]
        /\ mails = [a \in Addresses |-> 0]

-----------------------------------------------------------------------------
(* signing up *)

NotQueued == FALSE                                       \* mutant of Posted
Posted == configured

\* join_waitlist: on conflict there is no insert; an insert fires the trigger.
Join(a) ==
  /\ ~row[a].exists
  /\ row' = [row EXCEPT ![a].exists = TRUE]
  /\ queue' = [queue EXCEPT ![a] = Posted]
  /\ UNCHANGED <<faults, configured, pc, mails>>

Configure == /\ ~configured
             /\ configured' = TRUE
             /\ UNCHANGED <<faults, row, queue, pc, mails>>

\* The operator's update before a resend.
ClearErrors ==
  /\ row' = [a \in Addresses |-> [row[a] EXCEPT !.error = @ /\ row[a].sent]]
  /\ UNCHANGED <<faults, configured, queue, pc, mails>>

-----------------------------------------------------------------------------
(* calling the function *)

Start(a, s) ==
  /\ pc[a][s] = "over" /\ mails[a] < MaxMails
  /\ "overlap" \in faults \/ \A r \in Slots : pc[a][r] = "over"
  /\ pc' = [pc EXCEPT ![a][s] = "checking"]
  /\ UNCHANGED <<faults, configured, row, mails>>

\* pg_net makes the call, and may make it again.
Deliver(a, s) == /\ queue[a]
                 /\ queue' \in {queue, [queue EXCEPT ![a] = FALSE]}
                 /\ Start(a, s)

Lose(a) == /\ "lost" \in faults /\ queue[a]
           /\ queue' = [queue EXCEPT ![a] = FALSE]
           /\ UNCHANGED <<faults, configured, row, pc, mails>>

\* The operator redelivers, or calls the function with the id of a row.
Redeliver(a, s) == row[a].exists /\ Start(a, s) /\ UNCHANGED queue

-----------------------------------------------------------------------------
(* send-waitlist-email *)

Goto(a, s, p) == /\ pc' = [pc EXCEPT ![a][s] = p]
                 /\ UNCHANGED <<faults, configured, queue>>

NotLooked(a) == FALSE                                    \* mutant of AlreadySent
AlreadySent(a) == row[a].sent

\* A failing select looks like a row that was not mailed; without the key of the
\* provider there is nothing to look for.
Check(a, s) ==
  /\ pc[a][s] = "checking"
  /\ \/ Goto(a, s, IF AlreadySent(a) THEN "over" ELSE "sending")
     \/ "select" \in faults /\ Goto(a, s, "sending")
     \/ "no_key" \in faults /\ Goto(a, s, "over")
  /\ UNCHANGED <<row, mails>>

TakenForSent == "accepted"                               \* mutant of NotOk
NotOk == "rejected"

\* The provider takes the mail or not; fetch returns its answer, or throws past
\* the rest of the handler.
Send(a, s) ==
  /\ pc[a][s] = "sending"
  /\ \/ /\ mails' = [mails EXCEPT ![a] = @ + 1]
        /\ \/ Goto(a, s, "accepted")
           \/ "unanswered" \in faults /\ Goto(a, s, "over")
     \/ /\ mails' = mails
        /\ \/ "reject" \in faults /\ Goto(a, s, NotOk)
           \/ {"unreachable", "unanswered"} \cap faults # {} /\ Goto(a, s, "over")
  /\ UNCHANGED row

FailureOverwrites(r) == [r EXCEPT !.error = TRUE, !.sent = FALSE]  \* mutant of WithError
WithError(r) == [r EXCEPT !.error = TRUE]
WithSent(r) == [r EXCEPT !.sent = TRUE, !.error = FALSE]

\* The error that an update returns is not looked at.
Record(a, s) ==
  /\ pc[a][s] \in {"accepted", "rejected"}
  /\ \/ row' = [row EXCEPT ![a] = IF pc[a][s] = "accepted" THEN WithSent(@) ELSE WithError(@)]
     \/ "update" \in faults /\ row' = row
  /\ Goto(a, s, "over")
  /\ UNCHANGED mails

Kill(a, s) == /\ "kill" \in faults /\ pc[a][s] # "over"
              /\ Goto(a, s, "over")
              /\ UNCHANGED <<row, mails>>

Delivery(a) == \E s \in Slots : Deliver(a, s)
Handler(a, s) == Check(a, s) \/ Send(a, s) \/ Record(a, s)

Next == \/ Configure \/ ClearErrors
        \/ \E a \in Addresses :
             \/ Join(a) \/ Delivery(a) \/ Lose(a)
             \/ \E s \in Slots : Redeliver(a, s) \/ Handler(a, s) \/ Kill(a, s)
Spec == Init /\ [][Next]_vars

\* pg_net works through its queue, and the platform runs a call that has begun.
LiveSpec == /\ Spec
            /\ \A a \in Addresses : /\ WF_vars(Delivery(a))
                                    /\ \A s \in Slots : WF_vars(Handler(a, s))

-----------------------------------------------------------------------------
(* properties *)

Stages == {"over", "checking", "sending", "accepted", "rejected"}
TypeOK == /\ faults \in Scenarios /\ configured \in BOOLEAN
          /\ row \in [Addresses -> [exists : BOOLEAN, sent : BOOLEAN, error : BOOLEAN]]
          /\ queue \in [Addresses -> BOOLEAN]
          /\ pc \in [Addresses -> [Slots -> Stages]]
          /\ mails \in [Addresses -> Nat]

\* A row says that the receipt went out only if it did, through every fault and
\* overlap of calls: who asks for the rows without confirmation_sent_at misses
\* nobody (waitlist_email.sql:51-53, "so it can be sent later").
MailedIfSent == \A a \in Addresses : row[a].sent => mails[a] > 0

Unwritten == {"update", "unanswered", "kill"} \cap faults
Unseen == {"overlap", "select"} \cap faults

\* A receipt that went out is written down, or is about to be, unless the update
\* failed, the answer was lost or the call was ended: overlapping calls with
\* other outcomes do not take it back (index.ts:104, "Record the outcome").
SentIfMailed == Unwritten = {} =>
  \A a \in Addresses :
    mails[a] > 0 => row[a].sent \/ \E s \in Slots : pc[a][s] = "accepted"

\* Nobody is mailed the receipt twice, however often they sign up and their
\* call is made, unless calls overlap, the select fails or a receipt is not
\* written down (index.ts:78-79, "never send twice for a row that already went
\* out").
OneReceipt == Unwritten \cup Unseen = {} => \A a \in Addresses : mails[a] <= 1

\* Who signs up once the mailer is configured is mailed, if no call is lost or
\* ended and the provider takes mail: whatever comes in between.
Delivers == {"lost", "no_key", "reject", "unreachable", "unanswered", "kill"}
              \cap faults = {}
ReceiptGoesOut ==
  \A a \in Addresses :
    [](Delivers /\ configured /\ ~row[a].exists => [](row[a].exists => <>(mails[a] > 0)))
=============================================================================
