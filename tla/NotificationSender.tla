------------------------- MODULE NotificationSender -------------------------
(***************************************************************************)
(* NotificationSender (packages/notifications/src/sender.ts) and the       *)
(* delivery receipts of WhatsAppWebhookService.recordStatus                *)
(* (apps/api/src/notifications/whatsapp-webhook.service.ts): the rows the  *)
(* dispatcher planned become messages.                                     *)
(*                                                                         *)
(* A notice is one event for one recipient; it has at most one row per     *)
(* channel.  Channels are numbered in the order of preference of its spec. *)
(* A worker claims a row in one transaction, hands the message to the      *)
(* provider inside a second one, and records a failure in a third.  What   *)
(* the rules allow to be sent (the service window, templates, consent, a   *)
(* destination) is a choice made at every attempt, for it may change       *)
(* between two.                                                            *)
(*                                                                         *)
(* Of nextAttemptAt the model keeps whether there is a date.  Whether that *)
(* date has come (PENDING) or is past by staleClaimMs (PROCESSING) is left *)
(* open at every pass: time passes at any pace, and since a claim does not *)
(* move the date, a row that waited is stale as soon as it is claimed.     *)
(***************************************************************************)
EXTENDS Naturals, FiniteSets

CONSTANTS
  Notices,
  LastChannel,   \* channels are 1 .. LastChannel
  Receipted,     \* channels whose provider names its messages and reports on them
  Senders,
  BatchSize,
  MaxAttempts,   \* MAX_NOTIFICATION_ATTEMPTS
  MaxPlanned,    \* bound: rows a notice starts with (those of an alarm never meet)
  MaxFaults,     \* bound: deaths, lost outcomes and messages that bounce
  MaxReceipts,   \* bound: receipts that arrive
  None

ASSUME LastChannelAssumption == LastChannel \in Nat \ {0}
ASSUME ReceiptedAssumption == Receipted \subseteq 1 .. LastChannel
ASSUME BatchSizeAssumption == BatchSize \in Nat \ {0}
ASSUME MaxAttemptsAssumption == MaxAttempts \in Nat \ {0}
ASSUME MaxPlannedAssumption == MaxPlanned \in Nat \ {0}
ASSUME MaxFaultsAssumption == MaxFaults \in Nat
ASSUME MaxReceiptsAssumption == MaxReceipts \in Nat

VARIABLES
  mode,       \* the delivery mode of each notice's spec
  row,        \* notifications, by notice and channel
  job,        \* what each worker is in the middle of
  sends,      \* messages the provider took, by row; they are named 1, 2, ...
  delivered, bounced,   \* messages whose receipt has come, and what it said
  excused,    \* history variable: see ToldOnce
  early,      \* history variable: messages that bounced before they were recorded
  extra,      \* history variable: claims outside the attempt budget
  faults

vars == <<mode, row, job, sends, delivered, bounced, excused, early, extra,
          faults>>

----------------------------------------------------------------------------
Channels == 1 .. LastChannel
Rows == Notices \X Channels
Status == {"PENDING", "PROCESSING", "SENT", "DELIVERED", "FAILED", "SUPPRESSED"}
Open == {"PENDING", "PROCESSING"}
NoMessage == 0

\* As the dispatcher and a promotion insert it: due at once.
Planned == [status |-> "PENDING", dated |-> TRUE, attempts |-> 0,
            message |-> NoMessage]

Init ==
  /\ mode \in [Notices -> {"first-available", "all-channels"}]
  /\ \E usable \in [Notices -> (SUBSET Channels) \ {{}}] :
       /\ \A n \in Notices : mode[n] = "all-channels" =>
                              Cardinality(usable[n]) <= MaxPlanned
       /\ row = [r \in Rows |->
                  IF /\ r[2] \in usable[r[1]]
                     /\ mode[r[1]] = "first-available" =>
                          \A c \in usable[r[1]] : r[2] <= c
                  THEN Planned ELSE None]
  /\ job = [s \in Senders |-> None]
  /\ sends = [r \in Rows |-> 0]
  /\ delivered = [r \in Rows |-> {}]
  /\ bounced = [r \in Rows |-> {}]
  /\ excused = {}
  /\ early = [r \in Rows |-> {}]
  /\ extra = [r \in Rows |-> 0]
  /\ faults = 0

provider == <<sends, delivered, bounced>>
history  == <<excused, early, extra>>

----------------------------------------------------------------------------
(* A pass of one worker. *)

\* Mutant: a row whose worker died is not looked for.
MayBeDueOnlyPending(r) == row[r].dated /\ row[r].status = "PENDING"

\* PENDING and due, or PROCESSING and stale: its worker is taken for dead.
MayBeDue(r) == row[r].dated /\ row[r].status \in Open

Candidates(todo) ==
  IF todo = {} THEN None
  ELSE [at |-> "claim", todo |-> todo, row |-> None, message |-> NoMessage,
        retryable |-> TRUE, attempts |-> 0]

\* findMany, by id and status; the loop then goes through what it found.
Read(s) ==
  /\ job[s] = None
  /\ \E due \in (SUBSET {r \in Rows : row[r] # None /\ MayBeDue(r)}) \ {{}} :
       /\ Cardinality(due) <= BatchSize
       /\ job' = [job EXCEPT ![s] = Candidates({<<r, row[r].status>> : r \in due})]
  /\ UNCHANGED <<mode, row, provider, history, faults>>

At(s, place) == job[s] # None /\ job[s].at = place

Move(s, r, place, message, retryable, attempts) ==
  job' = [job EXCEPT ![s] = [@ EXCEPT !.at = place, !.row = r, !.message = message,
                                      !.retryable = retryable, !.attempts = attempts]]

\* The candidate is done with; on to the next one.
Proceed(s) == job' = [job EXCEPT ![s] = Candidates(job[s].todo)]

Claimed(r) == [row[r] EXCEPT !.status = "PROCESSING",
                              !.attempts = row[r].attempts + 1]

\* Mutant: the claim names the row and not the status it was found in.
ClaimUnchecked(s, r, status) ==
  /\ At(s, "claim")
  /\ <<r, status>> \in job[s].todo
  /\ row' = [row EXCEPT ![r] = Claimed(r)]
  /\ job' = [job EXCEPT ![s].at = "deliver", ![s].row = r,
                        ![s].todo = @ \ {<<r, status>>}]
  /\ UNCHANGED <<mode, provider, history, faults>>

\* updateMany where the status is still the one read; its count is the answer.
\* For a row found PROCESSING that condition holds before and after the claim.
Claim(s, r, status) ==
  /\ At(s, "claim")
  /\ <<r, status>> \in job[s].todo
  /\ LET todo == job[s].todo \ {<<r, status>>} IN
       IF row[r].status = status
       THEN /\ row' = [row EXCEPT ![r] = Claimed(r)]
            /\ job' = [job EXCEPT ![s] = [@ EXCEPT !.at = "deliver", !.row = r,
                                                   !.todo = todo]]
            /\ IF status = "PROCESSING"
               THEN /\ excused' = excused \union {r[1]}
                    /\ extra' = [extra EXCEPT ![r] = @ + 1]
               ELSE UNCHANGED <<excused, extra>>
       ELSE /\ job' = [job EXCEPT ![s] = Candidates(todo)]
            /\ UNCHANGED <<row, excused, extra>>
  /\ UNCHANGED <<mode, provider, early, faults>>

\* The provider takes the message, inside the transaction that will record it.
\* The row is not looked at again: deliver() sends whatever its status is.
Send(s) ==
  /\ At(s, "deliver")
  /\ LET r == job[s].row
         message == IF r[2] \in Receipted THEN sends[r] + 1 ELSE NoMessage
     IN
       /\ sends' = [sends EXCEPT ![r] = @ + 1]
       /\ Move(s, r, "sent", message, TRUE, 0)
  /\ UNCHANGED <<mode, row, delivered, bounced, history, faults>>

\* The provider, or anything before it, refuses.
SendFails(s, retryable) ==
  /\ At(s, "deliver")
  /\ Move(s, job[s].row, "failed", NoMessage, retryable, 0)
  /\ UNCHANGED <<mode, row, provider, history, faults>>

\* The rules do not allow it: SUPPRESSED, and for a first-available notice the
\* next channel gets a row of its own, unless it has one (skipDuplicates).
Suppress(s) ==
  /\ At(s, "deliver")
  /\ LET r == job[s].row
         next == <<r[1], r[2] + 1>>
         promoted == mode[r[1]] = "first-available" /\ r[2] < LastChannel
     IN row' = [q \in Rows |->
                  IF q = r THEN [row[r] EXCEPT !.status = "SUPPRESSED", !.dated = FALSE]
                  ELSE IF promoted /\ q = next /\ row[q] = None THEN Planned
                  ELSE row[q]]
  /\ Proceed(s)
  /\ UNCHANGED <<mode, provider, history, faults>>

\* The update by id, over whatever the row has become.
RecordSent(s) ==
  /\ At(s, "sent")
  /\ row' = [row EXCEPT ![job[s].row] =
               [@ EXCEPT !.status = "SENT", !.dated = FALSE, !.message = job[s].message]]
  /\ Proceed(s)
  /\ UNCHANGED <<mode, provider, history, faults>>

Fault == faults < MaxFaults /\ faults' = faults + 1

\* The message is out, and the transaction does not commit: its thirty seconds
\* are over, or the provider's answer was lost.
RecordSentFails(s) ==
  /\ At(s, "sent")
  /\ Fault
  /\ excused' = excused \union {job[s].row[1]}
  /\ Move(s, job[s].row, "failed", NoMessage, TRUE, 0)
  /\ UNCHANGED <<mode, row, provider, early, extra>>

\* recordFailure, first statement: the attempts, as they are now.
CountAttempts(s) ==
  /\ At(s, "failed")
  /\ Move(s, job[s].row, "record", NoMessage, job[s].retryable, row[job[s].row].attempts)
  /\ UNCHANGED <<mode, row, provider, history, faults>>

\* nextRetryAt is not null.
RetriesLeft(attempts) == attempts < MaxAttempts

\* Mutant: an error that must not be retried has no date and stays PENDING.
WriteFailureStillPending(s) ==
  /\ At(s, "record")
  /\ LET again == job[s].retryable /\ RetriesLeft(job[s].attempts) IN
       row' = [row EXCEPT
                 ![job[s].row].status = IF job[s].retryable THEN
                                          IF again THEN "PENDING" ELSE "FAILED"
                                        ELSE "PENDING",
                 ![job[s].row].dated = again]
  /\ Proceed(s)
  /\ UNCHANGED <<mode, provider, history, faults>>

\* Second statement: back to PENDING with a date, or FAILED, again by id alone.
WriteFailure(s) ==
  /\ At(s, "record")
  /\ LET again == job[s].retryable /\ RetriesLeft(job[s].attempts) IN
       row' = [row EXCEPT ![job[s].row] =
                 [@ EXCEPT !.status = IF again THEN "PENDING" ELSE "FAILED",
                           !.dated = again]]
  /\ Proceed(s)
  /\ UNCHANGED <<mode, provider, history, faults>>

\* "Could not record a notification failure": logged, and on with the loop.
RecordFailureFails(s) ==
  /\ At(s, "failed") \/ At(s, "record")
  /\ Fault
  /\ Proceed(s)
  /\ UNCHANGED <<mode, row, provider, history>>

\* The worker dies; its transaction is rolled back and its claim stays.
Crash(s) ==
  /\ job[s] # None
  /\ Fault
  /\ excused' = IF At(s, "sent") THEN excused \union {job[s].row[1]} ELSE excused
  /\ job' = [job EXCEPT ![s] = None]
  /\ UNCHANGED <<mode, row, provider, early, extra>>

----------------------------------------------------------------------------
(* The receipts. *)

\* The unique webhook event lets each kind of receipt of a message through once,
\* at any time after the provider took it.
Receive(r, m, reported) ==
  /\ r[2] \in Receipted
  /\ m \in 1 .. sends[r] \ reported[r]
  /\ \A q \in Rows : Cardinality(delivered[q]) + Cardinality(bounced[q]) < MaxReceipts

Matches(r, m) == row[r].message = m

\* Mutant: the receipt is applied to the row, whichever message it speaks of.
DeliveredAnyMessage(r, m) ==
  /\ Receive(r, m, delivered)
  /\ delivered' = [delivered EXCEPT ![r] = @ \union {m}]
  /\ row' = [row EXCEPT ![r].status = "DELIVERED"]
  /\ UNCHANGED <<mode, job, sends, bounced, history, faults>>

\* 'delivered', or 'read', which does the same: DELIVERED, whatever the status.
Delivered(r, m) ==
  /\ Receive(r, m, delivered)
  /\ delivered' = [delivered EXCEPT ![r] = @ \union {m}]
  /\ row' = IF Matches(r, m) THEN [row EXCEPT ![r] = [@ EXCEPT !.status = "DELIVERED"]]
            ELSE row
  /\ UNCHANGED <<mode, job, sends, bounced, history, faults>>

\* The sender has the message and has not recorded it.
IsUnrecorded(r, m) ==
  \E s \in Senders : At(s, "sent") /\ job[s].row = r /\ job[s].message = m

\* 'failed': a SENT row goes back to the ladder, due at once and with no look at
\* its attempts.  A receipt that comes before the recording finds no such row.
Bounced(r, m) ==
  /\ Receive(r, m, bounced)
  /\ Fault
  /\ bounced' = [bounced EXCEPT ![r] = @ \union {m}]
  /\ early' = IF IsUnrecorded(r, m) THEN [early EXCEPT ![r] = @ \union {m}] ELSE early
  /\ IF Matches(r, m) /\ row[r].status = "SENT"
     THEN /\ row' = [row EXCEPT ![r] = [@ EXCEPT !.status = "PENDING", !.dated = TRUE,
                                                 !.message = NoMessage]]
          /\ excused' = excused \union {r[1]}
          /\ extra' = [extra EXCEPT ![r] = @ + 1]
     ELSE UNCHANGED <<row, excused, extra>>
  /\ UNCHANGED <<mode, job, sends, delivered>>

----------------------------------------------------------------------------
Work(s) ==
  \/ Read(s)
  \/ \E r \in Rows, status \in Open : Claim(s, r, status)
  \/ Send(s)
  \/ \E retryable \in BOOLEAN : SendFails(s, retryable)
  \/ Suppress(s)
  \/ RecordSent(s)
  \/ CountAttempts(s)
  \/ WriteFailure(s)

Next ==
  \/ \E s \in Senders :
       Work(s) \/ RecordSentFails(s) \/ RecordFailureFails(s) \/ Crash(s)
  \/ \E r \in Rows : \E m \in 1 .. sends[r] : Delivered(r, m) \/ Bounced(r, m)

\* The timer comes back after every pass, a dead worker is restarted, and every
\* date comes.  Providers owe no receipt.
Fairness == \A s \in Senders : WF_vars(Work(s))

Spec == Init /\ [][Next]_vars /\ Fairness

----------------------------------------------------------------------------
Row == [status : Status, dated : BOOLEAN,
        attempts : Nat, message : Nat]
Job == [at : {"claim", "deliver", "sent", "failed", "record"},
        todo : SUBSET (Rows \X Open), row : Rows \union {None},
        message : Nat, retryable : BOOLEAN, attempts : Nat]

\* A null is none of the values it stands in for.
ASSUME NoneAssumption == None \notin Row \union Job \union Rows

\* The type invariant.  An unfinished row always has a date, so that some pass
\* will find it: no order of claims, failures, promotions and receipts leaves
\* one PENDING or PROCESSING and invisible.
TypeOK ==
  /\ mode \in [Notices -> {"first-available", "all-channels"}]
  /\ row \in [Rows -> Row \union {None}]
  /\ job \in [Senders -> Job \union {None}]
  /\ sends \in [Rows -> Nat]
  /\ faults \in 0 .. MaxFaults
  /\ \A s \in Senders : job[s] # None =>
       /\ (job[s].at = "claim") <=> (job[s].row = None)
       /\ job[s].at # "claim" => row[job[s].row] # None
  /\ \A r \in Rows : row[r] # None /\ row[r].status \in Open => row[r].dated

(***************************************************************************)
(* An order update arrives once, by the best means, and an alarm once on   *)
(* each channel: more than one message goes out only after a row was       *)
(* reclaimed, a message was out whose recording failed, or one bounced.    *)
(***************************************************************************)
ToldOnce ==
  \A n \in Notices \ excused :
    /\ \A c \in Channels : sends[<<n, c>>] <= 1
    /\ mode[n] = "first-available" =>
         Cardinality({c \in Channels : sends[<<n, c>>] > 0}) <= 1

(***************************************************************************)
(* "Sent" and "actually reached the customer's phone" stay distinguishable:*)
(* a DELIVERED row names a message that was delivered, and a SENT one a    *)
(* message that was taken and has not bounced, unless its receipt came     *)
(* before the sender had recorded it.  And "give up after this many        *)
(* attempts": a row is attempted MaxAttempts times, and once more for each *)
(* time a stale claim was taken over or a sent message bounced, which is   *)
(* where the code does not look at the count.                              *)
(***************************************************************************)
StatusIsTrue ==
  \A r \in Rows : row[r] # None =>
    /\ row[r].status = "DELIVERED" => row[r].message \in delivered[r]
    /\ row[r].status = "SENT" =>
         /\ sends[r] > 0
         /\ row[r].message \notin bounced[r] \ early[r]
    /\ row[r].attempts <= MaxAttempts + extra[r]

(***************************************************************************)
(* No notification is about to arrive and never does: every row comes to   *)
(* an end, through worker deaths and lost outcomes, and a first-available  *)
(* notice ends with a message out, a row given up, or every channel        *)
(* suppressed from the first one planned to the last.                      *)
(***************************************************************************)
Settled(n) ==
  /\ \A c \in Channels : row[<<n, c>>] # None => row[<<n, c>>].status \notin Open
  /\ mode[n] = "first-available" =>
       \/ \E c \in Channels : sends[<<n, c>>] > 0
       \/ \E c \in Channels : row[<<n, c>>] # None /\ row[<<n, c>>].status = "FAILED"
       \/ row[<<n, LastChannel>>] # None

EveryNoticeSettles == \A n \in Notices : []<>Settled(n)

\* Its safety part: a notice that is not settled has a row that a pass will find.
NothingIsStranded ==
  \A n \in Notices :
    Settled(n) \/ \E c \in Channels : row[<<n, c>>] # None /\ MayBeDue(<<n, c>>)

(***************************************************************************)
(* claim(): "Takes exclusive ownership of one notification ... exactly one *)
(* changes a row".  Two workers that both found the row PROCESSING both do *)
(* (run sender_claim).                                                     *)
(***************************************************************************)
ClaimIsExclusive ==
  \A s, t \in Senders :
    s # t /\ job[s] # None /\ job[t] # None /\ job[s].row # None
      => job[s].row # job[t].row
=============================================================================
