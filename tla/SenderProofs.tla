---------------------------- MODULE SenderProofs ----------------------------
(***************************************************************************)
(* What NotificationSender promises for any number of notices, channels    *)
(* and workers, any limits and any number of failures and receipts: the    *)
(* type invariant, that a row's status is true and its attempts within the *)
(* budget, that nobody is told twice without an excuse, and that a notice  *)
(* which is not settled has a row that a pass will find.                   *)
(***************************************************************************)
EXTENDS NotificationSender, FiniteSetTheorems, WellFoundedInduction, TLAPS

----------------------------------------------------------------------------
(* The shape of rows and jobs, which TypeOK leaves partly out: receipts    *)
(* and reclaims are of messages and rows there are, and a worker goes      *)
(* through rows there are.                                                 *)

Booked ==
  /\ delivered \in [Rows -> SUBSET Nat]
  /\ bounced \in [Rows -> SUBSET Nat]
  /\ early \in [Rows -> SUBSET Nat]
  /\ extra \in [Rows -> Nat]
  /\ \A r \in Rows : bounced[r] \subseteq 1 .. sends[r]
  /\ \A r \in Rows : sends[r] > 0 => row[r] # None
  /\ \A s \in Senders : job[s] # None =>
       \A c \in job[s].todo : row[c[1]] # None

Holds(s, r) == job[s] # None /\ job[s].row = r

\* What can be said of one job, and of all the others when only one changes.
JobOK(s) ==
  job[s] # None =>
    /\ (job[s].at = "claim") <=> (job[s].row = None)
    /\ job[s].at # "claim" => row[job[s].row] # None
    /\ \A c \in job[s].todo : row[c[1]] # None

LEMMA JobFields ==
  ASSUME TypeOK, Booked, NEW s \in Senders, job[s] # None
  PROVE  /\ job[s] \in Job
         /\ job[s].todo \subseteq Rows \X Open
         /\ job[s].message \in Nat /\ job[s].attempts \in Nat
         /\ job[s].retryable \in BOOLEAN
         /\ job[s].at # "claim" => /\ job[s].row \in Rows
                                   /\ row[job[s].row] \in Row
                                   /\ row[job[s].row] # None
         /\ JobOK(s)
<1>1. job[s] \in Job /\ JobOK(s)
  BY DEF TypeOK, Booked, JobOK
<1> QED  BY <1>1 DEF Job, JobOK, TypeOK

LEMMA MoveEffects ==
  ASSUME TypeOK, Booked, NEW s \in Senders, job[s] # None, NEW r \in Rows,
         NEW place \in {"sent", "failed", "record"}, NEW m \in Nat,
         NEW again \in BOOLEAN, NEW n \in Nat, Move(s, r, place, m, again, n)
  PROVE  /\ job' \in [Senders -> Job \union {None}]
         /\ job'[s] # None /\ job'[s].at = place /\ job'[s].row = r
         /\ job'[s].message = m /\ job'[s].retryable = again
         /\ job'[s].attempts = n /\ job'[s].todo = job[s].todo
         /\ \A t \in Senders \ {s} : job'[t] = job[t]
<1> DEFINE new == [job[s] EXCEPT !.at = place, !.row = r, !.message = m,
                                 !.retryable = again, !.attempts = n]
<1>1. job' = [job EXCEPT ![s] = new]
  BY Zenon DEF Move
<1>2. job[s] \in Job
  BY JobFields
<1>3. new \in Job
  BY <1>2 DEF Job
<1>4. /\ new.at = place /\ new.row = r /\ new.message = m
      /\ new.retryable = again /\ new.attempts = n /\ new.todo = job[s].todo
  BY <1>2 DEF Job
<1> HIDE DEF new
<1>5. new # None
  BY <1>3, NoneAssumption
<1>6. job'[s] = new /\ \A t \in Senders \ {s} : job'[t] = job[t]
  BY <1>1 DEF TypeOK
<1>7. job' \in [Senders -> Job \union {None}]
  BY <1>1, <1>3 DEF TypeOK
<1> QED  BY <1>4, <1>5, <1>6, <1>7

LEMMA CandidateEffects ==
  ASSUME TypeOK, NEW s \in Senders, NEW todo \in SUBSET (Rows \X Open),
         job' = [job EXCEPT ![s] = Candidates(todo)]
  PROVE  /\ job' \in [Senders -> Job \union {None}]
         /\ \/ job'[s] = None
            \/ /\ job'[s] # None /\ job'[s].at = "claim"
               /\ job'[s].row = None /\ job'[s].todo = todo
         /\ \A r \in Rows : ~(job'[s] # None /\ job'[s].row = r)
         /\ \A t \in Senders \ {s} : job'[t] = job[t]
<1> DEFINE new == [at |-> "claim", todo |-> todo, row |-> None,
                   message |-> NoMessage, retryable |-> TRUE, attempts |-> 0]
<1>1. new \in Job
  BY DEF Job, NoMessage
<1>2. new # None
  BY <1>1, NoneAssumption
<1>3. Candidates(todo) = None \/ Candidates(todo) = new
  BY DEF Candidates
<1>4. job'[s] = Candidates(todo) /\ \A t \in Senders \ {s} : job'[t] = job[t]
  BY DEF TypeOK
<1>5. job' \in [Senders -> Job \union {None}]
  BY <1>1, <1>3 DEF TypeOK
<1>6. new.at = "claim" /\ new.row = None /\ new.todo = todo
  OBVIOUS
<1>7. None \notin Rows
  BY NoneAssumption
<1> HIDE DEF new
<1> QED  BY <1>2, <1>3, <1>4, <1>5, <1>6, <1>7

LEMMA RowEffects ==
  ASSUME TypeOK, NEW r \in Rows, NEW new \in Row, new.status \in Open => new.dated,
         row' = [row EXCEPT ![r] = new]
  PROVE  /\ row' \in [Rows -> Row \union {None}]
         /\ row'[r] # None /\ row'[r] = new
         /\ \A q \in Rows \ {r} : row'[q] = row[q]
         /\ \A q \in Rows : row[q] # None => row'[q] # None
         /\ \A q \in Rows : row'[q] # None /\ row'[q].status \in Open => row'[q].dated
<1>1. new # None
  BY NoneAssumption
<1>2. row'[r] = new /\ \A q \in Rows \ {r} : row'[q] = row[q]
  BY DEF TypeOK
<1>3. row' \in [Rows -> Row \union {None}]
  BY DEF TypeOK
<1>4. \A q \in Rows : row'[q] # None /\ row'[q].status \in Open => row'[q].dated
  BY <1>2 DEF TypeOK
<1> QED  BY <1>1, <1>2, <1>3, <1>4

\* One job changes and no row goes: what holds of that job is enough.
LEMMA JobsStayFit ==
  ASSUME TypeOK, Booked, NEW s \in Senders,
         \A t \in Senders \ {s} : job'[t] = job[t], JobOK(s)',
         \A r \in Rows : row[r] # None => row'[r] # None
  PROVE  \A t \in Senders : JobOK(t)'
<1> SUFFICES ASSUME NEW t \in Senders, t # s, job[t] # None
             PROVE  JobOK(t)'
  BY DEF JobOK
<1>1. job'[t] = job[t]
  OBVIOUS
<1>2. JobOK(t) /\ job[t].todo \subseteq Rows \X Open
      /\ (job[t].at # "claim" => job[t].row \in Rows)
  BY JobFields
<1>3. \A c \in job[t].todo : c[1] \in Rows
  BY <1>2
<1> QED  BY <1>1, <1>2, <1>3 DEF JobOK

\* What is left to show of a step once its effects on rows and jobs are known.
LEMMA StepFits ==
  ASSUME TypeOK, Booked, NEW s \in Senders,
         \A t \in Senders \ {s} : job'[t] = job[t], JobOK(s)',
         job' \in [Senders -> Job \union {None}],
         row' \in [Rows -> Row \union {None}],
         \A r \in Rows : row[r] # None => row'[r] # None,
         \A r \in Rows : row'[r] # None /\ row'[r].status \in Open => row'[r].dated,
         mode' = mode, faults' \in 0 .. MaxFaults,
         sends' \in [Rows -> Nat],
         \A r \in Rows : sends[r] <= sends'[r] /\ (sends'[r] > 0 => row'[r] # None),
         delivered' = delivered, bounced' = bounced, early' = early,
         extra' \in [Rows -> Nat]
  PROVE  TypeOK' /\ Booked'
<1>1. \A t \in Senders : JobOK(t)'
  BY JobsStayFit
<1>2. TypeOK'
  BY <1>1 DEF TypeOK, JobOK
<1>3. \A r \in Rows : bounced'[r] \subseteq 1 .. sends'[r]
  BY DEF Booked, TypeOK
<1> QED  BY <1>1, <1>2, <1>3 DEF Booked, JobOK

\* A step that leaves rows, messages and history alone.
LEMMA JobStepFits ==
  ASSUME TypeOK, Booked, NEW s \in Senders,
         \A t \in Senders \ {s} : job'[t] = job[t], JobOK(s)',
         job' \in [Senders -> Job \union {None}],
         UNCHANGED <<mode, row, provider, early, extra>>, faults' \in 0 .. MaxFaults
  PROVE  TypeOK' /\ Booked'
<1>1. UNCHANGED <<sends, delivered, bounced>>
  BY DEF provider
<1> QED  BY <1>1, StepFits DEF TypeOK, Booked

LEMMA FaultFits ==
  ASSUME TypeOK, Fault
  PROVE  faults' \in 0 .. MaxFaults
BY MaxFaultsAssumption DEF TypeOK, Fault

----------------------------------------------------------------------------
(* The actions, one by one: what each does to its row and its job. *)

LEMMA ReadEffects ==
  ASSUME TypeOK, Booked, NEW s \in Senders, Read(s)
  PROVE  /\ TypeOK' /\ Booked'
         /\ job[s] = None /\ \A r \in Rows : ~Holds(s, r)'
         /\ \A t \in Senders \ {s} : job'[t] = job[t]
         /\ UNCHANGED <<mode, row, sends, delivered, bounced, excused, early, extra>>
<1>1. PICK due \in SUBSET {r \in Rows : row[r] # None /\ MayBeDue(r)} :
        job' = [job EXCEPT ![s] = Candidates({<<r, row[r].status>> : r \in due})]
  BY DEF Read
<1> DEFINE todo == {<<r, row[r].status>> : r \in due}
<1>2. todo \in SUBSET (Rows \X Open) /\ \A c \in todo : row[c[1]] # None
  BY <1>1 DEF MayBeDue
<1> HIDE DEF todo
<1>3. job' = [job EXCEPT ![s] = Candidates(todo)]
  BY <1>1 DEF todo
<1>4. UNCHANGED <<mode, row, sends, delivered, bounced, excused, early, extra, faults>>
  BY DEF Read, provider, history
<1>5. JobOK(s)'
  <2>1. \/ job'[s] = None
        \/ job'[s].at = "claim" /\ job'[s].row = None /\ job'[s].todo = todo
    BY <1>2, <1>3, CandidateEffects
  <2> QED  BY <1>2, <1>4, <2>1 DEF JobOK
<1>6. UNCHANGED <<mode, row, provider, early, extra>> /\ faults' \in 0 .. MaxFaults
  BY <1>4 DEF provider, TypeOK
<1> QED  BY <1>2, <1>3, <1>4, <1>5, <1>6, CandidateEffects, JobStepFits
           DEF Read, Holds

\* A claim that finds its row as it was read.
LEMMA ClaimTakes ==
  ASSUME TypeOK, Booked, NEW s \in Senders, NEW r \in Rows, NEW status \in Open,
         Claim(s, r, status), row[r].status = status
  PROVE  /\ TypeOK' /\ Booked'
         /\ job[s] # None /\ job[s].row = None
         /\ job'[s] # None /\ job'[s].row = r /\ job'[s].at = "deliver"
         /\ \A t \in Senders \ {s} : job'[t] = job[t]
         /\ row[r] # None /\ row'[r] # None /\ row'[r].status = "PROCESSING"
         /\ row'[r].attempts = row[r].attempts + 1
         /\ row'[r].message = row[r].message
         /\ \A q \in Rows \ {r} : row'[q] = row[q]
         /\ IF status = "PROCESSING"
            THEN /\ excused' = excused \union {r[1]}
                 /\ extra' = [extra EXCEPT ![r] = @ + 1]
            ELSE UNCHANGED <<excused, extra>>
         /\ UNCHANGED <<mode, sends, delivered, bounced, early>>
<1> DEFINE todo == job[s].todo \ {<<r, status>>}
           new == [job[s] EXCEPT !.at = "deliver", !.row = r, !.todo = todo]
<1>1. job[s] # None /\ job[s].at = "claim" /\ <<r, status>> \in job[s].todo
  BY DEF Claim, At
<1>2. job[s] \in Job /\ job[s].row = None /\ row[r] # None /\ JobOK(s)
  <2>1. job[s] \in Job /\ JobOK(s)
    BY <1>1, JobFields
  <2> QED  BY <1>1, <2>1 DEF JobOK
<1>3. row[r] \in Row
  BY <1>2 DEF TypeOK
<1>4. row' = [row EXCEPT ![r] = Claimed(r)]
  BY DEF Claim
<1>5. job' = [job EXCEPT ![s] = new]
  BY Zenon DEF Claim
<1>6. /\ Claimed(r) \in Row /\ Claimed(r).status = "PROCESSING"
      /\ Claimed(r).dated = row[r].dated /\ Claimed(r).message = row[r].message
      /\ Claimed(r).attempts = row[r].attempts + 1
  <2>1. row[r].attempts + 1 \in Nat
    BY <1>3 DEF Row
  <2>2. ASSUME NEW x \in Row, NEW n \in Nat
        PROVE  LET y == [x EXCEPT !.status = "PROCESSING", !.attempts = n] IN
                 /\ y \in Row /\ y.status = "PROCESSING"
                 /\ y.dated = x.dated /\ y.message = x.message /\ y.attempts = n
    BY DEF Row, Status
  <2> QED  BY <1>3, <2>1, <2>2 DEF Claimed
<1>7. row[r].dated = TRUE
  BY <1>2, <1>3 DEF TypeOK, Row
<1>9. /\ row' \in [Rows -> Row \union {None}]
      /\ row'[r] # None /\ row'[r].status = "PROCESSING"
      /\ row'[r].attempts = row[r].attempts + 1 /\ row'[r].message = row[r].message
      /\ \A q \in Rows \ {r} : row'[q] = row[q]
      /\ \A q \in Rows : row'[q] # None /\ row'[q].status \in Open => row'[q].dated
  BY <1>4, <1>6, <1>7, RowEffects
<1>10. new \in Job
  BY <1>2 DEF Job
<1>11. new.at = "deliver" /\ new.row = r /\ new.todo \subseteq job[s].todo
  BY <1>2 DEF Job
<1> HIDE DEF new
<1>12. new # None
  BY <1>10, NoneAssumption
<1>13. /\ job'[s] = new /\ \A t \in Senders \ {s} : job'[t] = job[t]
       /\ job' \in [Senders -> Job \union {None}]
  BY <1>5, <1>10 DEF TypeOK
<1>14. \A q \in Rows : row[q] # None => row'[q] # None
  BY <1>9
<1>15. JobOK(s)'
  <2>1. \A c \in new.todo : c[1] \in Rows /\ row[c[1]] # None
    BY <1>2, <1>11, <1>1, JobFields DEF JobOK
  <2>2. r # None
    BY NoneAssumption
  <2> QED  BY <1>9, <1>11, <1>13, <1>14, <2>1, <2>2 DEF JobOK
<1>16. /\ UNCHANGED <<mode, sends, delivered, bounced, early, faults>>
       /\ IF status = "PROCESSING"
          THEN /\ excused' = excused \union {r[1]}
               /\ extra' = [extra EXCEPT ![r] = @ + 1]
          ELSE UNCHANGED <<excused, extra>>
  BY DEF Claim, provider
<1>17. extra' \in [Rows -> Nat]
  BY <1>16 DEF Booked
<1>18. TypeOK' /\ Booked'
  <2>1. \A q \in Rows : sends[q] <= sends'[q] /\ (sends'[q] > 0 => row'[q] # None)
    BY <1>14, <1>16 DEF Booked, TypeOK
  <2> QED  BY <1>9, <1>13, <1>14, <1>15, <1>16, <1>17, <2>1, StepFits DEF TypeOK
<1> QED  BY <1>1, <1>2, <1>9, <1>11, <1>12, <1>13, <1>16, <1>18

\* A claim that does not, and goes on to the next candidate.
LEMMA ClaimMisses ==
  ASSUME TypeOK, Booked, NEW s \in Senders, NEW r \in Rows, NEW status \in Open,
         Claim(s, r, status), row[r].status # status
  PROVE  /\ TypeOK' /\ Booked'
         /\ job[s] # None /\ job[s].row = None /\ \A q \in Rows : ~Holds(s, q)'
         /\ \A t \in Senders \ {s} : job'[t] = job[t]
         /\ UNCHANGED <<mode, row, sends, delivered, bounced, excused, early, extra>>
<1> DEFINE todo == job[s].todo \ {<<r, status>>}
<1>1. /\ job[s] # None /\ job[s].at = "claim"
      /\ job' = [job EXCEPT ![s] = Candidates(todo)]
      /\ UNCHANGED <<mode, row, sends, delivered, bounced, excused, early, extra, faults>>
  BY DEF Claim, At, provider
<1>2. JobOK(s) /\ todo \in SUBSET (Rows \X Open)
  BY <1>1, JobFields
<1>3. job[s].row = None /\ \A c \in todo : row[c[1]] # None
  BY <1>1, <1>2 DEF JobOK
<1> HIDE DEF todo
<1>4. JobOK(s)'
  BY <1>1, <1>2, <1>3, CandidateEffects DEF JobOK
<1>5. UNCHANGED <<mode, row, provider, early, extra>> /\ faults' \in 0 .. MaxFaults
  BY <1>1 DEF provider, TypeOK
<1> QED  BY <1>1, <1>2, <1>3, <1>4, <1>5, CandidateEffects, JobStepFits DEF Holds

LEMMA SendEffects ==
  ASSUME TypeOK, Booked, NEW s \in Senders, Send(s)
  PROVE  /\ TypeOK' /\ Booked'
         /\ job[s] # None /\ job[s].at = "deliver" /\ job[s].row \in Rows
         /\ job'[s] # None /\ job'[s].at = "sent" /\ job'[s].row = job[s].row
         /\ job'[s].message \in {NoMessage, sends[job[s].row] + 1}
         /\ \A t \in Senders \ {s} : job'[t] = job[t]
         /\ sends' = [sends EXCEPT ![job[s].row] = @ + 1]
         /\ UNCHANGED <<mode, row, delivered, bounced, excused, early, extra>>
<1> DEFINE r == job[s].row
           m == IF r[2] \in Receipted THEN sends[r] + 1 ELSE NoMessage
<1>1. job[s] # None /\ job[s].at = "deliver"
  BY DEF Send, At
<1>2. r \in Rows /\ row[r] # None /\ JobOK(s)
  BY <1>1, JobFields
<1>3. sends[r] \in Nat /\ m \in Nat
  BY <1>2 DEF TypeOK, NoMessage
<1>4. Move(s, r, "sent", m, TRUE, 0)
  BY DEF Send
<1> HIDE DEF m
<1>5. /\ job' \in [Senders -> Job \union {None}]
      /\ job'[s] # None /\ job'[s].at = "sent" /\ job'[s].row = r
      /\ job'[s].message = m /\ job'[s].todo = job[s].todo
      /\ \A t \in Senders \ {s} : job'[t] = job[t]
  <2> HIDE DEF r
  <2> QED  BY <1>1, <1>2, <1>3, <1>4, MoveEffects
<1>6. /\ UNCHANGED <<mode, row, delivered, bounced, excused, early, extra, faults>>
      /\ sends' = [sends EXCEPT ![r] = @ + 1]
  BY DEF Send, history
<1>7. r # None
  BY <1>2, NoneAssumption
<1>8. JobOK(s)'
  BY <1>1, <1>2, <1>5, <1>6, <1>7 DEF JobOK
<1>9. /\ sends' \in [Rows -> Nat]
      /\ \A q \in Rows : sends[q] <= sends'[q] /\ (sends'[q] > 0 => row'[q] # None)
  BY <1>2, <1>3, <1>6 DEF TypeOK, Booked
<1>10. TypeOK' /\ Booked'
  BY <1>5, <1>6, <1>8, <1>9, StepFits DEF TypeOK, Booked
<1> QED  BY <1>1, <1>2, <1>5, <1>6, <1>10 DEF m

\* The moves that change nothing but the job.
LEMMA MovesFit ==
  ASSUME TypeOK, Booked, NEW s \in Senders, job[s] # None, job[s].at # "claim",
         NEW place \in {"sent", "failed", "record"}, NEW again \in BOOLEAN,
         NEW n \in Nat, Move(s, job[s].row, place, NoMessage, again, n),
         UNCHANGED <<mode, row, provider, early, extra>>, faults' \in 0 .. MaxFaults
  PROVE  /\ TypeOK' /\ Booked' /\ job[s].row \in Rows
         /\ job'[s] # None /\ job'[s].at = place /\ job'[s].row = job[s].row
         /\ job'[s].attempts = n /\ job'[s].retryable = again
         /\ \A t \in Senders \ {s} : job'[t] = job[t]
<1> DEFINE r == job[s].row
<1>1. r \in Rows /\ row[r] # None /\ JobOK(s) /\ r # None
  BY JobFields, NoneAssumption
<1>2. NoMessage \in Nat
  BY DEF NoMessage
<1>3. /\ job' \in [Senders -> Job \union {None}]
      /\ job'[s] # None /\ job'[s].at = place /\ job'[s].row = r
      /\ job'[s].attempts = n /\ job'[s].retryable = again
      /\ job'[s].todo = job[s].todo
      /\ \A t \in Senders \ {s} : job'[t] = job[t]
  BY <1>1, <1>2, MoveEffects
<1>4. JobOK(s)'
  BY <1>1, <1>3 DEF JobOK
<1> QED  BY <1>1, <1>3, <1>4, JobStepFits

\* The ends of a candidate that change nothing but the job.
LEMMA ProceedsFit ==
  ASSUME TypeOK, Booked, NEW s \in Senders, job[s] # None,
         Proceed(s) \/ job' = [job EXCEPT ![s] = None],
         UNCHANGED <<mode, row, provider, early, extra>>, faults' \in 0 .. MaxFaults
  PROVE  /\ TypeOK' /\ Booked' /\ \A q \in Rows : ~Holds(s, q)'
         /\ \A t \in Senders \ {s} : job'[t] = job[t]
<1>1. job[s].todo \in SUBSET (Rows \X Open) /\ JobOK(s)
  BY JobFields
<1>2. CASE Proceed(s)
  <2>1. job' = [job EXCEPT ![s] = Candidates(job[s].todo)]
    BY <1>2 DEF Proceed
  <2>2. /\ job' \in [Senders -> Job \union {None}]
        /\ \/ job'[s] = None
           \/ job'[s].at = "claim" /\ job'[s].row = None /\ job'[s].todo = job[s].todo
        /\ \A q \in Rows : ~(job'[s] # None /\ job'[s].row = q)
        /\ \A t \in Senders \ {s} : job'[t] = job[t]
    BY <1>1, <2>1, CandidateEffects
  <2>3. JobOK(s)'
    BY <1>1, <2>2 DEF JobOK
  <2> QED  BY <2>2, <2>3, JobStepFits DEF Holds
<1>3. CASE job' = [job EXCEPT ![s] = None]
  <2>1. /\ job' \in [Senders -> Job \union {None}] /\ job'[s] = None
        /\ \A t \in Senders \ {s} : job'[t] = job[t]
    BY <1>3 DEF TypeOK
  <2>2. JobOK(s)'
    BY <2>1 DEF JobOK
  <2> QED  BY <2>1, <2>2, JobStepFits DEF Holds
<1> QED  BY <1>2, <1>3

\* The ends of a candidate that write rows as well.
LEMMA WritesFit ==
  ASSUME TypeOK, Booked, NEW s \in Senders, job[s] # None, Proceed(s),
         row' \in [Rows -> Row \union {None}],
         \A q \in Rows : row[q] # None => row'[q] # None,
         \A q \in Rows : row'[q] # None /\ row'[q].status \in Open => row'[q].dated,
         UNCHANGED <<mode, provider, history, faults>>
  PROVE  /\ TypeOK' /\ Booked' /\ \A q \in Rows : ~Holds(s, q)'
         /\ \A t \in Senders \ {s} : job'[t] = job[t]
         /\ UNCHANGED <<mode, sends, delivered, bounced, excused, early, extra>>
<1>1. job[s].todo \in SUBSET (Rows \X Open) /\ JobOK(s)
  BY JobFields
<1>2. job' = [job EXCEPT ![s] = Candidates(job[s].todo)]
  BY DEF Proceed
<1>3. /\ job' \in [Senders -> Job \union {None}]
      /\ \/ job'[s] = None
         \/ job'[s].at = "claim" /\ job'[s].row = None /\ job'[s].todo = job[s].todo
      /\ \A q \in Rows : ~(job'[s] # None /\ job'[s].row = q)
      /\ \A t \in Senders \ {s} : job'[t] = job[t]
  <2> DEFINE todo == job[s].todo
  <2>1. todo \in SUBSET (Rows \X Open) /\ job' = [job EXCEPT ![s] = Candidates(todo)]
    BY <1>1, <1>2
  <2> HIDE DEF todo
  <2>2. /\ job' \in [Senders -> Job \union {None}]
        /\ \/ job'[s] = None
           \/ /\ job'[s] # None /\ job'[s].at = "claim"
              /\ job'[s].row = None /\ job'[s].todo = todo
        /\ \A r \in Rows : ~(job'[s] # None /\ job'[s].row = r)
        /\ \A t \in Senders \ {s} : job'[t] = job[t]
    BY <2>1, CandidateEffects
  <2> QED  BY <2>2 DEF todo
<1>4. \A c \in job[s].todo : c[1] \in Rows
  BY <1>1
<1>5. JobOK(s)'
  BY <1>1, <1>3, <1>4 DEF JobOK
<1>6. UNCHANGED <<mode, sends, delivered, bounced, excused, early, extra, faults>>
  BY DEF provider, history
<1>7. \A q \in Rows : sends[q] <= sends'[q] /\ (sends'[q] > 0 => row'[q] # None)
  BY <1>6 DEF TypeOK, Booked
<1>8. TypeOK' /\ Booked'
  BY <1>3, <1>5, <1>6, <1>7, StepFits DEF TypeOK, Booked
<1> QED  BY <1>3, <1>6, <1>8 DEF Holds

LEMMA RecordSentEffects ==
  ASSUME TypeOK, Booked, NEW s \in Senders, RecordSent(s)
  PROVE  /\ TypeOK' /\ Booked' /\ \A q \in Rows : ~Holds(s, q)'
         /\ \A t \in Senders \ {s} : job'[t] = job[t]
         /\ UNCHANGED <<mode, sends, delivered, bounced, excused, early, extra>>
         /\ job[s] # None /\ job[s].at = "sent" /\ job[s].row \in Rows
         /\ row[job[s].row] # None /\ row'[job[s].row] # None
         /\ row'[job[s].row].status = "SENT"
         /\ row'[job[s].row].attempts = row[job[s].row].attempts
         /\ row'[job[s].row].message = job[s].message
         /\ \A q \in Rows \ {job[s].row} : row'[q] = row[q]
<1> DEFINE r == job[s].row
           new == [row[r] EXCEPT !.status = "SENT", !.dated = FALSE,
                                 !.message = job[s].message]
<1>1. job[s] # None /\ job[s].at = "sent" /\ Proceed(s)
  BY DEF RecordSent, At
<1>2. r \in Rows /\ row[r] \in Row /\ row[r] # None /\ job[s].message \in Nat
  BY <1>1, JobFields
<1>3. row' = [row EXCEPT ![r] = new]
  BY Zenon DEF RecordSent
<1>4. "SENT" \in Status /\ "SENT" \notin Open
  BY DEF Status, Open
<1>5. /\ new \in Row /\ new.status = "SENT"
      /\ new.attempts = row[r].attempts /\ new.message = job[s].message
  BY <1>2, <1>4 DEF Row
<1> HIDE DEF new
<1>6. /\ row' \in [Rows -> Row \union {None}]
      /\ row'[r] # None /\ row'[r] = new
      /\ \A q \in Rows \ {r} : row'[q] = row[q]
      /\ \A q \in Rows : row[q] # None => row'[q] # None
      /\ \A q \in Rows : row'[q] # None /\ row'[q].status \in Open => row'[q].dated
  BY <1>2, <1>3, <1>4, <1>5, RowEffects
<1>7. UNCHANGED <<mode, provider, history, faults>>
  BY DEF RecordSent
<1> QED  BY <1>1, <1>2, <1>5, <1>6, <1>7, WritesFit

LEMMA WriteFailureEffects ==
  ASSUME TypeOK, Booked, NEW s \in Senders, WriteFailure(s)
  PROVE  /\ TypeOK' /\ Booked' /\ \A q \in Rows : ~Holds(s, q)'
         /\ \A t \in Senders \ {s} : job'[t] = job[t]
         /\ UNCHANGED <<mode, sends, delivered, bounced, excused, early, extra>>
         /\ job[s] # None /\ job[s].at = "record" /\ job[s].row \in Rows
         /\ row[job[s].row] # None /\ row'[job[s].row] # None
         /\ row'[job[s].row].status =
              IF job[s].retryable /\ job[s].attempts < MaxAttempts
              THEN "PENDING" ELSE "FAILED"
         /\ row'[job[s].row].attempts = row[job[s].row].attempts
         /\ row'[job[s].row].message = row[job[s].row].message
         /\ \A q \in Rows \ {job[s].row} : row'[q] = row[q]
<1> DEFINE r == job[s].row
           again == job[s].retryable /\ job[s].attempts < MaxAttempts
           status == IF again THEN "PENDING" ELSE "FAILED"
           new == [row[r] EXCEPT !.status = status, !.dated = again]
<1>1. job[s] # None /\ job[s].at = "record" /\ Proceed(s)
  BY DEF WriteFailure, At
<1>2. r \in Rows /\ row[r] \in Row /\ row[r] # None
  BY <1>1, JobFields
<1>3. row' = [row EXCEPT ![r] = new]
  BY Zenon DEF WriteFailure, RetriesLeft
<1>4. status \in Status /\ (status \in Open => again) /\ again \in BOOLEAN
  BY DEF Status, Open
<1> HIDE DEF status, again
<1>5. /\ new \in Row /\ new.status = status /\ new.dated = again
      /\ new.attempts = row[r].attempts /\ new.message = row[r].message
  BY <1>2, <1>4 DEF Row
<1> HIDE DEF new
<1>6. /\ row' \in [Rows -> Row \union {None}]
      /\ row'[r] # None /\ row'[r] = new
      /\ \A q \in Rows \ {r} : row'[q] = row[q]
      /\ \A q \in Rows : row[q] # None => row'[q] # None
      /\ \A q \in Rows : row'[q] # None /\ row'[q].status \in Open => row'[q].dated
  BY <1>2, <1>3, <1>4, <1>5, RowEffects
<1>7. UNCHANGED <<mode, provider, history, faults>>
  BY DEF WriteFailure
<1> QED  BY <1>1, <1>2, <1>5, <1>6, <1>7, WritesFit DEF status, again

LEMMA SuppressEffects ==
  ASSUME TypeOK, Booked, NEW s \in Senders, Suppress(s)
  PROVE  /\ TypeOK' /\ Booked' /\ \A q \in Rows : ~Holds(s, q)'
         /\ \A t \in Senders \ {s} : job'[t] = job[t]
         /\ UNCHANGED <<mode, sends, delivered, bounced, excused, early, extra>>
         /\ job[s] # None /\ job[s].at = "deliver" /\ job[s].row \in Rows
         /\ row[job[s].row] # None /\ row'[job[s].row] # None
         /\ row'[job[s].row].status = "SUPPRESSED"
         /\ row'[job[s].row].attempts = row[job[s].row].attempts
         /\ row'[job[s].row].message = row[job[s].row].message
         /\ \A q \in Rows \ {job[s].row} :
              \/ row'[q] = row[q]
              \/ /\ row[q] = None /\ row'[q] # None /\ row'[q] = Planned
                 /\ q = <<job[s].row[1], job[s].row[2] + 1>>
                 /\ mode[q[1]] = "first-available"
<1> DEFINE r == job[s].row
           next == <<r[1], r[2] + 1>>
           promoted == mode[r[1]] = "first-available" /\ r[2] < LastChannel
           new == [row[r] EXCEPT !.status = "SUPPRESSED", !.dated = FALSE]
<1>1. job[s] # None /\ job[s].at = "deliver" /\ Proceed(s)
  BY DEF Suppress, At
<1>2. r \in Rows /\ row[r] \in Row /\ row[r] # None
  BY <1>1, JobFields
<1>3. row' = [q \in Rows |-> IF q = r THEN new
                             ELSE IF promoted /\ q = next /\ row[q] = None THEN Planned
                             ELSE row[q]]
  BY Zenon DEF Suppress
<1>4. "SUPPRESSED" \in Status /\ "SUPPRESSED" \notin Open
  BY DEF Status, Open
<1>5. /\ new \in Row /\ new.status = "SUPPRESSED"
      /\ new.attempts = row[r].attempts /\ new.message = row[r].message
  BY <1>2, <1>4 DEF Row
<1>6. Planned \in Row /\ Planned.dated /\ Planned # None /\ new # None
  <2>1. Planned \in Row /\ Planned.dated
    BY DEF Planned, Row, Status, NoMessage
  <2> HIDE DEF new
  <2> QED  BY <2>1, <1>5, NoneAssumption
<1> HIDE DEF new, promoted, next
<1>7. row' \in [Rows -> Row \union {None}]
  BY <1>3, <1>5, <1>6 DEF TypeOK
<1>8. row'[r] = new
  BY <1>2, <1>3
<1>9. \A q \in Rows \ {r} :
        \/ row'[q] = row[q]
        \/ /\ row[q] = None /\ row'[q] # None /\ row'[q] = Planned
           /\ q = next /\ promoted
  BY <1>3, <1>6
<1>10. \A q \in Rows : row[q] # None => row'[q] # None
  BY <1>2, <1>6, <1>8, <1>9
<1>11. \A q \in Rows : row'[q] # None /\ row'[q].status \in Open => row'[q].dated
  BY <1>4, <1>5, <1>6, <1>8, <1>9 DEF TypeOK
<1>12. UNCHANGED <<mode, provider, history, faults>>
  BY DEF Suppress
<1>13. promoted => mode[next[1]] = "first-available"
  BY DEF promoted, next
<1> QED  BY <1>1, <1>2, <1>5, <1>6, <1>7, <1>8, <1>9, <1>10, <1>11, <1>12, <1>13, WritesFit
           DEF next

\* The receipts leave jobs alone.
LEMMA ReceiptFits ==
  ASSUME TypeOK, Booked, UNCHANGED <<mode, job, sends>>, faults' \in 0 .. MaxFaults,
         row' \in [Rows -> Row \union {None}],
         \A q \in Rows : row[q] # None => row'[q] # None,
         \A q \in Rows : row'[q] # None /\ row'[q].status \in Open => row'[q].dated,
         delivered' \in [Rows -> SUBSET Nat], bounced' \in [Rows -> SUBSET Nat],
         early' \in [Rows -> SUBSET Nat], extra' \in [Rows -> Nat],
         \A q \in Rows : bounced'[q] \subseteq 1 .. sends[q]
  PROVE  TypeOK' /\ Booked'
<1>1. ASSUME NEW s \in Senders
      PROVE  JobOK(s)'
  <2>1. CASE job[s] = None
    BY <2>1 DEF JobOK
  <2>2. CASE job[s] # None
    <3>1. JobOK(s) /\ job[s].todo \subseteq Rows \X Open
          /\ (job[s].at # "claim" => job[s].row \in Rows)
      BY <2>2, JobFields
    <3>2. \A c \in job[s].todo : c[1] \in Rows
      BY <3>1
    <3> QED  BY <2>2, <3>1, <3>2 DEF JobOK
  <2> QED  BY <2>1, <2>2
<1>2. TypeOK'
  BY <1>1 DEF TypeOK, JobOK
<1> QED  BY <1>1, <1>2 DEF Booked, JobOK

LEMMA DeliveredEffects ==
  ASSUME TypeOK, Booked, NEW r \in Rows, NEW m \in 1 .. sends[r], Delivered(r, m)
  PROVE  /\ TypeOK' /\ Booked' /\ row[r] # None /\ row'[r] # None
         /\ UNCHANGED <<mode, job, sends, bounced, excused, early, extra>>
         /\ delivered' = [delivered EXCEPT ![r] = @ \union {m}]
         /\ \/ row' = row
            \/ /\ row[r].message = m
               /\ row'[r].status = "DELIVERED" /\ row'[r].message = row[r].message
               /\ row'[r].attempts = row[r].attempts
               /\ \A q \in Rows \ {r} : row'[q] = row[q]
<1>1. /\ UNCHANGED <<mode, job, sends, bounced, excused, early, extra, faults>>
      /\ delivered' = [delivered EXCEPT ![r] = @ \union {m}]
  BY DEF Delivered, history
<1>2. sends[r] \in Nat /\ m \in Nat /\ sends[r] > 0
  BY DEF TypeOK
<1>3. row[r] # None /\ row[r] \in Row
  BY <1>2 DEF Booked, TypeOK
<1>4. delivered' \in [Rows -> SUBSET Nat]
  BY <1>1, <1>2 DEF Booked
<1>5. CASE Matches(r, m)
  <2> DEFINE new == [row[r] EXCEPT !.status = "DELIVERED"]
  <2>1. row' = [row EXCEPT ![r] = new]
    BY <1>5, Zenon DEF Delivered
  <2>2. "DELIVERED" \in Status /\ "DELIVERED" \notin Open
    BY DEF Status, Open
  <2>3. /\ new \in Row /\ new.status = "DELIVERED"
        /\ new.attempts = row[r].attempts /\ new.message = row[r].message
    BY <1>3, <2>2 DEF Row
  <2> HIDE DEF new
  <2>4. /\ row' \in [Rows -> Row \union {None}]
        /\ row'[r] # None /\ row'[r] = new
        /\ \A q \in Rows \ {r} : row'[q] = row[q]
        /\ \A q \in Rows : row[q] # None => row'[q] # None
        /\ \A q \in Rows : row'[q] # None /\ row'[q].status \in Open => row'[q].dated
    BY <2>1, <2>2, <2>3, RowEffects
  <2>5. TypeOK' /\ Booked'
    BY <1>1, <1>4, <2>4, ReceiptFits DEF TypeOK, Booked
  <2> QED  BY <1>1, <1>3, <1>5, <2>3, <2>4, <2>5 DEF Matches
<1>6. CASE ~Matches(r, m)
  <2>1. row' = row
    BY <1>6 DEF Delivered
  <2>2. TypeOK' /\ Booked'
    BY <1>1, <1>4, <2>1, ReceiptFits DEF TypeOK, Booked
  <2> QED  BY <1>1, <1>3, <2>1, <2>2
<1> QED  BY <1>5, <1>6

LEMMA BouncedEffects ==
  ASSUME TypeOK, Booked, NEW r \in Rows, NEW m \in 1 .. sends[r], Bounced(r, m)
  PROVE  /\ TypeOK' /\ Booked' /\ row[r] # None /\ row'[r] # None
         /\ UNCHANGED <<mode, job, sends, delivered>>
         /\ bounced' = [bounced EXCEPT ![r] = @ \union {m}]
         /\ early' = IF IsUnrecorded(r, m) THEN [early EXCEPT ![r] = @ \union {m}]
                     ELSE early
         /\ \/ /\ row[r].message = m /\ row[r].status = "SENT"
               /\ row'[r].status = "PENDING" /\ row'[r].message = NoMessage
               /\ row'[r].attempts = row[r].attempts
               /\ \A q \in Rows \ {r} : row'[q] = row[q]
               /\ excused' = excused \union {r[1]}
               /\ extra' = [extra EXCEPT ![r] = @ + 1]
            \/ /\ ~(row[r].message = m /\ row[r].status = "SENT")
               /\ UNCHANGED <<row, excused, extra>>
<1>1. /\ UNCHANGED <<mode, job, sends, delivered>> /\ Fault
      /\ bounced' = [bounced EXCEPT ![r] = @ \union {m}]
      /\ early' = IF IsUnrecorded(r, m) THEN [early EXCEPT ![r] = @ \union {m}]
                  ELSE early
  BY DEF Bounced
<1>2. sends[r] \in Nat /\ m \in Nat /\ sends[r] > 0
  BY DEF TypeOK
<1>3. row[r] # None /\ row[r] \in Row
  BY <1>2 DEF Booked, TypeOK
<1>4. /\ bounced' \in [Rows -> SUBSET Nat]
      /\ \A q \in Rows : bounced'[q] \subseteq 1 .. sends[q]
  BY <1>1, <1>2 DEF Booked
<1>5. early' \in [Rows -> SUBSET Nat]
  BY <1>1, <1>2 DEF Booked
<1>6. faults' \in 0 .. MaxFaults
  BY <1>1, FaultFits
<1>7. CASE Matches(r, m) /\ row[r].status = "SENT"
  <2> DEFINE new == [row[r] EXCEPT !.status = "PENDING", !.dated = TRUE,
                                   !.message = NoMessage]
  <2>1. row' = [row EXCEPT ![r] = new]
    BY <1>7, Zenon DEF Bounced
  <2>2. "PENDING" \in Status /\ NoMessage \in Nat
    BY DEF Status, NoMessage
  <2>3. /\ new \in Row /\ new.status = "PENDING" /\ new.dated
        /\ new.attempts = row[r].attempts /\ new.message = NoMessage
    BY <1>3, <2>2 DEF Row
  <2> HIDE DEF new
  <2>4. /\ row' \in [Rows -> Row \union {None}]
        /\ row'[r] # None /\ row'[r] = new
        /\ \A q \in Rows \ {r} : row'[q] = row[q]
        /\ \A q \in Rows : row[q] # None => row'[q] # None
        /\ \A q \in Rows : row'[q] # None /\ row'[q].status \in Open => row'[q].dated
    BY <2>1, <2>3, RowEffects
  <2>5. excused' = excused \union {r[1]} /\ extra' = [extra EXCEPT ![r] = @ + 1]
    BY <1>7 DEF Bounced
  <2>6. extra' \in [Rows -> Nat]
    BY <2>5 DEF Booked
  <2>7. TypeOK' /\ Booked'
    BY <1>1, <1>4, <1>5, <1>6, <2>4, <2>6, ReceiptFits DEF TypeOK, Booked
  <2> QED  BY <1>1, <1>3, <1>7, <2>3, <2>4, <2>5, <2>7 DEF Matches
<1>8. CASE ~(Matches(r, m) /\ row[r].status = "SENT")
  <2>1. UNCHANGED <<row, excused, extra>>
    BY <1>8 DEF Bounced
  <2>2. TypeOK' /\ Booked'
    BY <1>1, <1>4, <1>5, <1>6, <2>1, ReceiptFits DEF TypeOK, Booked
  <2> QED  BY <1>1, <1>3, <1>8, <2>1, <2>2 DEF Matches
<1> QED  BY <1>7, <1>8

----------------------------------------------------------------------------
(* Every step is one of nine kinds. *)

Others(s) == \A t \in Senders \ {s} : job'[t] = job[t]

\* Holds nothing any more: a read, a claim that missed, a failure that could
\* not be recorded, a death.
LetsGo(s) ==
  /\ \A q \in Rows : ~Holds(s, q)'
  /\ Others(s)
  /\ UNCHANGED <<mode, row, sends, delivered, bounced, early, extra>>
  /\ excused \subseteq excused'
  /\ job[s] # None /\ job[s].at = "sent" => job[s].row[1] \in excused'

\* Towards recording a failure, with the row still in hand.
Fails(s) ==
  /\ job[s] # None /\ job[s].row \in Rows /\ job[s].at # "record"
  /\ job'[s] # None /\ job'[s].row = job[s].row
  /\ \/ job'[s].at = "failed"
     \/ job'[s].at = "record" /\ job'[s].attempts = row[job[s].row].attempts
  /\ Others(s)
  /\ UNCHANGED <<mode, row, sends, delivered, bounced, early, extra>>
  /\ excused \subseteq excused'
  /\ job[s].at = "sent" => job[s].row[1] \in excused'

LEMMA FailsEffects ==
  ASSUME TypeOK, Booked, NEW s \in Senders,
         \/ \E retryable \in BOOLEAN : SendFails(s, retryable)
         \/ RecordSentFails(s)
         \/ CountAttempts(s)
  PROVE  TypeOK' /\ Booked' /\ Fails(s)
<1>1. ASSUME NEW retryable \in BOOLEAN, SendFails(s, retryable)
      PROVE  TypeOK' /\ Booked' /\ Fails(s)
  <2>1. /\ job[s] # None /\ job[s].at = "deliver"
        /\ Move(s, job[s].row, "failed", NoMessage, retryable, 0)
        /\ UNCHANGED <<mode, row, provider, history, faults>>
    BY <1>1 DEF SendFails, At
  <2>2. faults' \in 0 .. MaxFaults /\ UNCHANGED <<mode, row, provider, early, extra>>
    BY <2>1 DEF TypeOK, history
  <2> QED  BY <2>1, <2>2, MovesFit DEF Fails, Others, provider, history
<1>2. CASE RecordSentFails(s)
  <2>1. /\ job[s] # None /\ job[s].at = "sent" /\ Fault
        /\ Move(s, job[s].row, "failed", NoMessage, TRUE, 0)
        /\ excused' = excused \union {job[s].row[1]}
        /\ UNCHANGED <<mode, row, provider, early, extra>>
    BY <1>2 DEF RecordSentFails, At
  <2>2. faults' \in 0 .. MaxFaults
    BY <2>1, FaultFits
  <2> QED  BY <2>1, <2>2, MovesFit DEF Fails, Others, provider
<1>3. CASE CountAttempts(s)
  <2>1. /\ job[s] # None /\ job[s].at = "failed"
        /\ Move(s, job[s].row, "record", NoMessage, job[s].retryable,
                row[job[s].row].attempts)
        /\ UNCHANGED <<mode, row, provider, history, faults>>
    BY <1>3 DEF CountAttempts, At
  <2>2. faults' \in 0 .. MaxFaults /\ UNCHANGED <<mode, row, provider, early, extra>>
    BY <2>1 DEF TypeOK, history
  <2>3. job[s].retryable \in BOOLEAN /\ row[job[s].row].attempts \in Nat
    BY <2>1, JobFields DEF Row
  <2> QED  BY <2>1, <2>2, <2>3, MovesFit DEF Fails, Others, provider, history
<1> QED  BY <1>1, <1>2, <1>3

LEMMA LetsGoEffects ==
  ASSUME TypeOK, Booked, NEW s \in Senders,
         \/ Read(s)
         \/ \E r \in Rows, status \in Open : /\ Claim(s, r, status)
                                             /\ row[r].status # status
         \/ RecordFailureFails(s)
         \/ Crash(s)
  PROVE  TypeOK' /\ Booked' /\ LetsGo(s)
<1>1. CASE Read(s)
  BY <1>1, ReadEffects DEF LetsGo, Others
<1>2. ASSUME NEW r \in Rows, NEW status \in Open, Claim(s, r, status),
             row[r].status # status
      PROVE  TypeOK' /\ Booked' /\ LetsGo(s)
  <2>1. job[s].at = "claim"
    BY <1>2 DEF Claim, At
  <2> QED  BY <1>2, <2>1, ClaimMisses DEF LetsGo, Others
<1>3. CASE RecordFailureFails(s)
  <2>1. /\ job[s] # None /\ job[s].at \in {"failed", "record"}
        /\ Fault /\ Proceed(s) /\ UNCHANGED <<mode, row, provider, history>>
    BY <1>3 DEF RecordFailureFails, At
  <2>2. faults' \in 0 .. MaxFaults
    BY <2>1, FaultFits
  <2> QED  BY <2>1, <2>2, ProceedsFit DEF LetsGo, Others, provider, history
<1>4. CASE Crash(s)
  <2>1. /\ job[s] # None /\ Fault /\ job' = [job EXCEPT ![s] = None]
        /\ UNCHANGED <<mode, row, provider, early, extra>>
        /\ excused' = IF At(s, "sent") THEN excused \union {job[s].row[1]} ELSE excused
    BY <1>4 DEF Crash
  <2>2. faults' \in 0 .. MaxFaults
    BY <2>1, FaultFits
  <2> QED  BY <2>1, <2>2, ProceedsFit DEF LetsGo, Others, provider, At
<1> QED  BY <1>1, <1>2, <1>3, <1>4

\* The kinds of steps of one worker.
Takes(s) == \E r \in Rows, status \in Open : Claim(s, r, status) /\ row[r].status = status
Kinds(s) ==
  LetsGo(s) \/ Takes(s) \/ Send(s) \/ Fails(s) \/ Suppress(s) \/ RecordSent(s)
    \/ WriteFailure(s)
Receipts ==
  \E r \in Rows : \E m \in 1 .. sends[r] : Delivered(r, m) \/ Bounced(r, m)

LEMMA StepsStayTyped ==
  ASSUME TypeOK, Booked, [Next]_vars
  PROVE  /\ TypeOK' /\ Booked'
         /\ (\E s \in Senders : Kinds(s)) \/ Receipts \/ UNCHANGED vars
<1>1. CASE UNCHANGED vars
  BY <1>1 DEF vars, TypeOK, Booked
<1>2. CASE Receipts
  BY <1>2, DeliveredEffects, BouncedEffects DEF Receipts
<1>3. ASSUME NEW s \in Senders,
             Work(s) \/ RecordSentFails(s) \/ RecordFailureFails(s) \/ Crash(s)
      PROVE  TypeOK' /\ Booked' /\ Kinds(s)
  <2>1. CASE Read(s) \/ RecordFailureFails(s) \/ Crash(s)
    BY <2>1, LetsGoEffects DEF Kinds
  <2>2. ASSUME NEW r \in Rows, NEW status \in Open, Claim(s, r, status)
        PROVE  TypeOK' /\ Booked' /\ Kinds(s)
    <3>1. CASE row[r].status = status
      BY <2>2, <3>1, ClaimTakes DEF Kinds, Takes
    <3>2. CASE row[r].status # status
      BY <2>2, <3>2, LetsGoEffects DEF Kinds
    <3> QED  BY <3>1, <3>2
  <2>3. CASE Send(s)
    BY <2>3, SendEffects DEF Kinds
  <2>4. CASE \/ \E retryable \in BOOLEAN : SendFails(s, retryable)
             \/ RecordSentFails(s)
             \/ CountAttempts(s)
    BY <2>4, FailsEffects DEF Kinds
  <2>5. CASE Suppress(s)
    BY <2>5, SuppressEffects DEF Kinds
  <2>6. CASE RecordSent(s)
    BY <2>6, RecordSentEffects DEF Kinds
  <2>7. CASE WriteFailure(s)
    BY <2>7, WriteFailureEffects DEF Kinds
  <2> QED  BY <1>3, <2>1, <2>2, <2>3, <2>4, <2>5, <2>6, <2>7 DEF Work
<1> QED  BY <1>1, <1>2, <1>3 DEF Next, Receipts

(***************************************************************************)
(* Types; and an unfinished row always has a date, so that a pass will     *)
(* find it, however claims, failures, promotions and receipts fall.        *)
(***************************************************************************)
THEOREM TypeCorrect == Spec => [](TypeOK /\ Booked)
<1>1. ASSUME Init PROVE TypeOK /\ Booked
  <2>1. Planned \in Row /\ Planned.dated
    BY DEF Planned, Row, Status, NoMessage
  <2>2. row \in [Rows -> Row \union {None}] /\ \A r \in Rows : row[r] \in {Planned, None}
    BY <1>1, <2>1 DEF Init
  <2>3. \A s \in Senders : job[s] = None
    BY <1>1 DEF Init
  <2>4. \A r \in Rows : row[r] # None => row[r].dated
    BY <2>1, <2>2
  <2>5. MaxFaults \in Nat
    BY MaxFaultsAssumption
  <2> QED  BY <1>1, <2>2, <2>3, <2>4, <2>5 DEF Init, TypeOK, Booked
<1>2. (TypeOK /\ Booked) /\ [Next]_vars => (TypeOK /\ Booked)'
  BY StepsStayTyped
<1> QED  BY <1>1, <1>2, PTL DEF Spec

----------------------------------------------------------------------------
(* What a status says. *)

\* A message that is out and not yet recorded was taken, and if it bounced
\* already it did so early.
Recorded(s) ==
  job[s] # None /\ job[s].at = "sent" =>
    /\ sends[job[s].row] > 0
    /\ job[s].message \notin bounced[job[s].row] \ early[job[s].row]

Truthful(r) ==
  row[r] # None =>
    /\ row[r].status = "DELIVERED" => row[r].message \in delivered[r]
    /\ row[r].status = "SENT" => /\ sends[r] > 0
                                 /\ row[r].message \notin bounced[r] \ early[r]

Truth == (\A s \in Senders : Recorded(s)) /\ (\A r \in Rows : Truthful(r))

\* Only Send leads to a message that waits to be recorded.
LEMMA SentIsFromSend ==
  ASSUME TypeOK, Booked, TypeOK',
         (\E s \in Senders : Kinds(s)) \/ Receipts \/ UNCHANGED vars,
         NEW t \in Senders, job'[t] # None, job'[t].at = "sent"
  PROVE  Send(t) \/ job'[t] = job[t]
<1>1. job'[t].row \in Rows
  BY DEF TypeOK, Job
<1>2. CASE Receipts
  BY <1>2, DeliveredEffects, BouncedEffects DEF Receipts
<1>3. CASE UNCHANGED vars
  BY <1>3 DEF vars
<1>4. ASSUME NEW s \in Senders, Kinds(s), t # s
      PROVE  job'[t] = job[t]
  <2>1. Others(s) => job'[t] = job[t]
    BY <1>4 DEF Others
  <2>2. CASE LetsGo(s) \/ Fails(s)
    BY <2>1, <2>2 DEF LetsGo, Fails
  <2>3. CASE Takes(s)
    BY <1>4, <2>3, ClaimTakes DEF Takes
  <2>4. CASE Send(s)
    BY <1>4, <2>4, SendEffects
  <2>5. CASE Suppress(s) \/ RecordSent(s) \/ WriteFailure(s)
    BY <1>4, <2>5, SuppressEffects, RecordSentEffects, WriteFailureEffects
  <2> QED  BY <1>4, <2>2, <2>3, <2>4, <2>5 DEF Kinds
<1>5. ASSUME Kinds(t)
      PROVE  Send(t)
  <2>1. ~LetsGo(t) /\ ~Suppress(t) /\ ~RecordSent(t) /\ ~WriteFailure(t)
    BY <1>1, SuppressEffects, RecordSentEffects, WriteFailureEffects DEF LetsGo, Holds
  <2>2. ~Takes(t)
    BY ClaimTakes DEF Takes
  <2>3. ~Fails(t)
    BY DEF Fails
  <2> QED  BY <1>5, <2>1, <2>2, <2>3 DEF Kinds
<1> QED  BY <1>2, <1>3, <1>4, <1>5

\* Receipts come in and messages go out; none is taken back.
LEMMA MessagesGrow ==
  ASSUME TypeOK, Booked,
         (\E s \in Senders : Kinds(s)) \/ Receipts \/ UNCHANGED vars,
         NEW r \in Rows
  PROVE  /\ sends[r] <= sends'[r] /\ delivered[r] \subseteq delivered'[r]
         /\ excused \subseteq excused' /\ mode' = mode
<1>1. sends[r] \in Nat /\ sends \in [Rows -> Nat] /\ delivered \in [Rows -> SUBSET Nat]
  BY DEF TypeOK, Booked
<1>2. CASE UNCHANGED vars
  BY <1>1, <1>2 DEF vars
<1>3. ASSUME NEW q \in Rows, NEW m \in 1 .. sends[q], Delivered(q, m) \/ Bounced(q, m)
      PROVE  /\ sends[r] <= sends'[r] /\ delivered[r] \subseteq delivered'[r]
             /\ excused \subseteq excused' /\ mode' = mode
  BY <1>1, <1>3, DeliveredEffects, BouncedEffects
<1>4. ASSUME NEW s \in Senders, Kinds(s)
      PROVE  /\ sends[r] <= sends'[r] /\ delivered[r] \subseteq delivered'[r]
             /\ excused \subseteq excused' /\ mode' = mode
  <2>1. CASE LetsGo(s) \/ Fails(s)
    BY <1>1, <2>1 DEF LetsGo, Fails
  <2>2. CASE Takes(s)
    BY <1>1, <2>2, ClaimTakes DEF Takes
  <2>3. CASE Send(s)
    BY <1>1, <2>3, SendEffects
  <2>4. CASE Suppress(s) \/ RecordSent(s) \/ WriteFailure(s)
    BY <1>1, <2>4, SuppressEffects, RecordSentEffects, WriteFailureEffects
  <2> QED  BY <1>4, <2>1, <2>2, <2>3, <2>4 DEF Kinds
<1> QED  BY <1>2, <1>3, <1>4 DEF Receipts

\* A bounce is new to a row only as Bounced makes it.
LEMMA BouncesAreReceipts ==
  ASSUME TypeOK, Booked,
         (\E s \in Senders : Kinds(s)) \/ Receipts \/ UNCHANGED vars,
         NEW r \in Rows
  PROVE  \/ bounced'[r] = bounced[r] /\ early'[r] = early[r]
         \/ \E m \in 1 .. sends[r] :
              /\ Bounced(r, m)
              /\ bounced'[r] = bounced[r] \union {m}
              /\ early'[r] = IF IsUnrecorded(r, m) THEN early[r] \union {m} ELSE early[r]
<1>1. CASE UNCHANGED vars
  BY <1>1 DEF vars
<1>2. ASSUME NEW s \in Senders, Kinds(s)
      PROVE  bounced' = bounced /\ early' = early
  BY <1>2, ClaimTakes, SendEffects, SuppressEffects, RecordSentEffects,
     WriteFailureEffects DEF Kinds, LetsGo, Takes, Fails
<1>3. ASSUME NEW q \in Rows, NEW m \in 1 .. sends[q], Delivered(q, m)
      PROVE  bounced' = bounced /\ early' = early
  BY <1>3, DeliveredEffects
<1>4. ASSUME NEW q \in Rows, NEW m \in 1 .. sends[q], Bounced(q, m)
      PROVE  \/ bounced'[r] = bounced[r] /\ early'[r] = early[r]
             \/ /\ q = r /\ bounced'[r] = bounced[r] \union {m}
                /\ early'[r] = IF IsUnrecorded(r, m) THEN early[r] \union {m} ELSE early[r]
  <2>1. /\ bounced' = [bounced EXCEPT ![q] = @ \union {m}]
        /\ early' = IF IsUnrecorded(q, m) THEN [early EXCEPT ![q] = @ \union {m}]
                    ELSE early
    BY <1>4, BouncedEffects
  <2>2. bounced \in [Rows -> SUBSET Nat] /\ early \in [Rows -> SUBSET Nat]
    BY DEF Booked
  <2> QED  BY <2>1, <2>2
<1> QED  BY <1>1, <1>2, <1>3, <1>4 DEF Receipts

LEMMA RecordedStays ==
  ASSUME TypeOK, Booked, TypeOK',
         (\E s \in Senders : Kinds(s)) \/ Receipts \/ UNCHANGED vars,
         NEW t \in Senders, Recorded(t)
  PROVE  Recorded(t)'
<1> SUFFICES ASSUME job'[t] # None, job'[t].at = "sent"
             PROVE  /\ sends'[job'[t].row] > 0
                    /\ job'[t].message \notin bounced'[job'[t].row] \ early'[job'[t].row]
  BY DEF Recorded
<1>1. CASE Send(t)
  <2> DEFINE r == job[t].row
  <2>1. /\ r \in Rows /\ job'[t].row = r
        /\ job'[t].message \in {NoMessage, sends[r] + 1}
        /\ sends' = [sends EXCEPT ![r] = @ + 1] /\ UNCHANGED <<bounced, early>>
    BY <1>1, SendEffects
  <2>2. sends[r] \in Nat /\ sends'[r] = sends[r] + 1 /\ bounced[r] \subseteq 1 .. sends[r]
    BY <2>1 DEF TypeOK, Booked
  <2>3. job'[t].message \notin bounced[r]
    BY <2>1, <2>2 DEF NoMessage
  <2> QED  BY <2>1, <2>2, <2>3
<1>2. CASE job'[t] = job[t]
  <2> DEFINE r == job[t].row
  <2>1. /\ r \in Rows /\ sends[r] > 0 /\ job[t].message \notin bounced[r] \ early[r]
        /\ sends[r] \in Nat /\ sends'[r] \in Nat
    BY <1>2, JobFields DEF Recorded, TypeOK
  <2>2. sends[r] <= sends'[r]
    BY <2>1, MessagesGrow
  <2>3. CASE bounced'[r] = bounced[r] /\ early'[r] = early[r]
    BY <1>2, <2>1, <2>2, <2>3
  <2>4. ASSUME NEW m \in 1 .. sends[r], bounced'[r] = bounced[r] \union {m},
               early'[r] = IF IsUnrecorded(r, m) THEN early[r] \union {m} ELSE early[r]
        PROVE  job[t].message \notin bounced'[r] \ early'[r]
    <3>1. job[t].message = m => IsUnrecorded(r, m)
      BY <1>2 DEF IsUnrecorded, At
    <3> QED  BY <2>1, <2>4, <3>1
  <2>5. \/ bounced'[r] = bounced[r] /\ early'[r] = early[r]
        \/ \E m \in 1 .. sends[r] :
             /\ bounced'[r] = bounced[r] \union {m}
             /\ early'[r] = IF IsUnrecorded(r, m) THEN early[r] \union {m} ELSE early[r]
    BY <2>1, BouncesAreReceipts
  <2>6. job[t].message \notin bounced'[r] \ early'[r]
    BY <2>1, <2>3, <2>4, <2>5
  <2>7. sends'[r] > 0
    BY <2>1, <2>2
  <2> QED  BY <1>2, <2>6, <2>7
<1> QED  BY <1>1, <1>2, SentIsFromSend

\* How a row's status comes to be DELIVERED or SENT.
LEMMA StatusChanges ==
  ASSUME TypeOK, Booked,
         (\E s \in Senders : Kinds(s)) \/ Receipts \/ UNCHANGED vars,
         NEW r \in Rows, row'[r] # None, row'[r].status \in {"SENT", "DELIVERED"}
  PROVE  \/ /\ row[r] # None /\ row'[r].status = row[r].status
            /\ row'[r].message = row[r].message
         \/ \E s \in Senders : RecordSent(s) /\ job[s].row = r
         \/ \E m \in 1 .. sends[r] :
              Delivered(r, m) /\ row[r].message = m /\ row'[r].message = m
                /\ row'[r].status = "DELIVERED"
<1>1. CASE row'[r] = row[r]
  BY <1>1
<1>2. CASE row'[r] # row[r]
  <2>1. ASSUME NEW q \in Rows, NEW m \in 1 .. sends[q], Delivered(q, m)
        PROVE  /\ q = r /\ row[r].message = m /\ row'[r].message = m
               /\ row'[r].status = "DELIVERED"
    BY <1>2, <2>1, DeliveredEffects
  <2>2. ASSUME NEW q \in Rows, NEW m \in 1 .. sends[q], Bounced(q, m)
        PROVE  FALSE
    <3>1. CASE q = r
      BY <1>2, <2>2, <3>1, BouncedEffects
    <3>2. CASE q # r
      BY <1>2, <2>2, <3>2, BouncedEffects
    <3> QED  BY <3>1, <3>2
  <2>3. ASSUME NEW s \in Senders, Kinds(s)
        PROVE  RecordSent(s) /\ job[s].row = r
    <3>1. ~LetsGo(s) /\ ~Fails(s) /\ ~Send(s)
      BY <1>2, SendEffects DEF LetsGo, Fails
    <3>2. ASSUME NEW q \in Rows, NEW status \in Open, Claim(s, q, status),
                 row[q].status = status
          PROVE  FALSE
      <4>1. row'[q].status = "PROCESSING" /\ \A p \in Rows \ {q} : row'[p] = row[p]
        BY <3>2, ClaimTakes
      <4> QED  BY <1>2, <4>1
    <3>3. ~Suppress(s)
      <4> SUFFICES ASSUME Suppress(s) PROVE FALSE
        OBVIOUS
      <4>1. /\ row'[job[s].row].status = "SUPPRESSED"
            /\ \A q \in Rows \ {job[s].row} : row'[q] = row[q] \/ row'[q] = Planned
        BY SuppressEffects
      <4> QED  BY <1>2, <4>1 DEF Planned
    <3>4. ~WriteFailure(s)
      <4> SUFFICES ASSUME WriteFailure(s) PROVE FALSE
        OBVIOUS
      <4>1. /\ row'[job[s].row].status \in {"PENDING", "FAILED"}
            /\ \A q \in Rows \ {job[s].row} : row'[q] = row[q]
        BY WriteFailureEffects
      <4> QED  BY <1>2, <4>1
    <3>5. RecordSent(s)
      BY <2>3, <3>1, <3>2, <3>3, <3>4 DEF Kinds, Takes
    <3> QED  BY <1>2, <3>5, RecordSentEffects
  <2>4. ~UNCHANGED vars
    BY <1>2 DEF vars
  <2> QED  BY <2>1, <2>2, <2>3, <2>4 DEF Receipts
<1> QED  BY <1>1, <1>2

LEMMA TruthfulStays ==
  ASSUME TypeOK, Booked, TypeOK', Booked', Truth,
         (\E s \in Senders : Kinds(s)) \/ Receipts \/ UNCHANGED vars,
         NEW r \in Rows
  PROVE  Truthful(r)'
<1> SUFFICES ASSUME row'[r] # None
             PROVE  /\ row'[r].status = "DELIVERED" => row'[r].message \in delivered'[r]
                    /\ row'[r].status = "SENT" =>
                         /\ sends'[r] > 0
                         /\ row'[r].message \notin bounced'[r] \ early'[r]
  BY DEF Truthful
<1> SUFFICES ASSUME row'[r].status \in {"SENT", "DELIVERED"}
             PROVE  /\ row'[r].status = "DELIVERED" => row'[r].message \in delivered'[r]
                    /\ row'[r].status = "SENT" =>
                         /\ sends'[r] > 0
                         /\ row'[r].message \notin bounced'[r] \ early'[r]
  OBVIOUS
<1>1. /\ sends[r] \in Nat /\ sends'[r] \in Nat /\ sends[r] <= sends'[r]
      /\ delivered[r] \subseteq delivered'[r]
  BY MessagesGrow DEF TypeOK
<1>2. CASE /\ row[r] # None /\ row'[r].status = row[r].status
           /\ row'[r].message = row[r].message
  <2>1. Truthful(r)
    BY DEF Truth
  <2>2. CASE row[r].status = "DELIVERED"
    BY <1>1, <1>2, <2>1, <2>2 DEF Truthful
  <2>3. CASE row[r].status = "SENT"
    <3>1. sends[r] > 0 /\ row[r].message \notin bounced[r] \ early[r]
      BY <1>2, <2>1, <2>3 DEF Truthful
    <3>2. ASSUME NEW m \in 1 .. sends[r], Bounced(r, m)
          PROVE  m # row[r].message
      BY <1>2, <2>3, <3>2, BouncedEffects
    <3>3. row[r].message \notin bounced'[r] \ early'[r]
      <4>1. CASE bounced'[r] = bounced[r] /\ early'[r] = early[r]
        BY <3>1, <4>1
      <4>2. ASSUME NEW m \in 1 .. sends[r], Bounced(r, m),
                   bounced'[r] = bounced[r] \union {m},
                   early'[r] = IF IsUnrecorded(r, m) THEN early[r] \union {m}
                               ELSE early[r]
            PROVE  row[r].message \notin bounced'[r] \ early'[r]
        BY <3>1, <3>2, <4>2
      <4> QED  BY <4>1, <4>2, BouncesAreReceipts
    <3> QED  BY <1>1, <1>2, <2>3, <3>1, <3>3
  <2> QED  BY <1>2, <2>2, <2>3
<1>3. ASSUME NEW s \in Senders, RecordSent(s), job[s].row = r
      PROVE  /\ row'[r].status = "SENT" /\ sends'[r] > 0
             /\ row'[r].message \notin bounced'[r] \ early'[r]
  <2>1. /\ job[s] # None /\ job[s].at = "sent" /\ row'[r].status = "SENT"
        /\ row'[r].message = job[s].message /\ UNCHANGED <<sends, bounced, early>>
    BY <1>3, RecordSentEffects
  <2>2. Recorded(s)
    BY DEF Truth
  <2> QED  BY <1>3, <2>1, <2>2 DEF Recorded
<1>4. ASSUME NEW m \in 1 .. sends[r], Delivered(r, m), row[r].message = m,
             row'[r].message = m, row'[r].status = "DELIVERED"
      PROVE  row'[r].message \in delivered'[r]
  <2>1. delivered' = [delivered EXCEPT ![r] = @ \union {m}]
    BY <1>4, DeliveredEffects
  <2> QED  BY <1>4, <2>1 DEF Booked
<1> QED  BY <1>2, <1>3, <1>4, StatusChanges

----------------------------------------------------------------------------
(* The attempts.  A row has more than one holder only after reclaims, and  *)
(* only a holder that counted less than MaxAttempts can put it back; so at *)
(* the limit every attempt still to come has been paid for by a reclaim or *)
(* a bounce.                                                               *)

Holders(r) == {s \in Senders : Holds(s, r)}

Grants(r) ==
  {s \in Holders(r) : /\ job[s].at = "record" /\ job[s].retryable
                      /\ job[s].attempts < MaxAttempts}

Pending(r) == IF row[r].status = "PENDING" THEN 1 ELSE 0

InBudget(r) ==
  /\ IsFiniteSet(Holders(r))
  /\ row[r] # None =>
       /\ Cardinality(Holders(r)) + Pending(r) <= 1 + extra[r]
       /\ row[r].attempts >= MaxAttempts =>
            row[r].attempts + Pending(r) + Cardinality(Grants(r))
              <= MaxAttempts + extra[r]

\* What the numbers are.
LEMMA BudgetNumbers ==
  ASSUME TypeOK, Booked, NEW r \in Rows, IsFiniteSet(Holders(r)), row[r] # None
  PROVE  /\ row[r].attempts \in Nat /\ extra[r] \in Nat /\ Pending(r) \in {0, 1}
         /\ Cardinality(Holders(r)) \in Nat /\ Cardinality(Grants(r)) \in Nat
         /\ Cardinality(Grants(r)) <= Cardinality(Holders(r))
         /\ IsFiniteSet(Grants(r)) /\ MaxAttempts \in Nat /\ MaxAttempts > 0
<1>1. Grants(r) \subseteq Holders(r)
  BY DEF Grants
<1>2. IsFiniteSet(Grants(r)) /\ Cardinality(Grants(r)) <= Cardinality(Holders(r))
  BY <1>1, FS_Subset
<1>3. Cardinality(Holders(r)) \in Nat /\ Cardinality(Grants(r)) \in Nat
  BY <1>2, FS_CardinalityType
<1>4. row[r] \in Row
  BY DEF TypeOK
<1> QED  BY <1>2, <1>3, <1>4, MaxAttemptsAssumption DEF Row, Booked, Pending

LEMMA LettingGo ==
  ASSUME NEW s \in Senders, Others(s), \A q \in Rows : ~Holds(s, q)', NEW r \in Rows
  PROVE  Holders(r)' = Holders(r) \ {s} /\ Grants(r)' = Grants(r) \ {s}
<1>1. \A t \in Senders : t # s => job'[t] = job[t]
  BY DEF Others
<1>2. \A t \in Senders : Holds(t, r)' <=> Holds(t, r) /\ t # s
  BY <1>1 DEF Holds
<1> QED  BY <1>1, <1>2 DEF Holders, Grants

LEMMA HoldingOn ==
  ASSUME NEW s \in Senders, Others(s), job[s] # None, job'[s] # None,
         job'[s].row = job[s].row, NEW r \in Rows
  PROVE  /\ Holders(r)' = Holders(r)
         /\ Grants(r)' \ {s} = Grants(r) \ {s}
<1>1. \A t \in Senders : t # s => job'[t] = job[t]
  BY DEF Others
<1>2. \A t \in Senders : Holds(t, r)' <=> Holds(t, r)
  BY <1>1 DEF Holds
<1> QED  BY <1>1, <1>2 DEF Holders, Grants

\* Fewer holders and fewer grants on the same row.
LEMMA LessIsInBudget ==
  ASSUME TypeOK, Booked, TypeOK', Booked', NEW r \in Rows, InBudget(r),
         row[r] # None, row'[r] # None,
         Holders(r)' \subseteq Holders(r), Grants(r)' \subseteq Grants(r),
         row'[r].attempts = row[r].attempts, extra'[r] = extra[r],
         row'[r].status = "PENDING" => row[r].status = "PENDING"
  PROVE  InBudget(r)'
<1>1. IsFiniteSet(Holders(r))
  BY DEF InBudget
<1>2. IsFiniteSet(Grants(r))
  BY <1>1, BudgetNumbers
<1>3. IsFiniteSet(Holders(r)')
      /\ Cardinality(Holders(r)') <= Cardinality(Holders(r))
      /\ Cardinality(Grants(r)') <= Cardinality(Grants(r))
      /\ Cardinality(Holders(r)') \in Nat /\ Cardinality(Grants(r)') \in Nat
  BY <1>1, <1>2, FS_Subset, FS_CardinalityType
<1>4. Pending(r)' <= Pending(r) /\ Pending(r)' \in {0, 1}
  BY DEF Pending
<1>5. /\ row[r].attempts \in Nat /\ extra[r] \in Nat /\ Pending(r) \in {0, 1}
      /\ Cardinality(Holders(r)) \in Nat /\ Cardinality(Grants(r)) \in Nat
      /\ MaxAttempts \in Nat
  BY <1>1, BudgetNumbers
<1>6. /\ Cardinality(Holders(r)) + Pending(r) <= 1 + extra[r]
      /\ row[r].attempts >= MaxAttempts =>
           row[r].attempts + Pending(r) + Cardinality(Grants(r))
             <= MaxAttempts + extra[r]
  BY DEF InBudget
<1>7. Cardinality(Holders(r)') + Pending(r)' <= 1 + extra'[r]
  BY <1>3, <1>4, <1>5, <1>6
<1>8. row'[r].attempts >= MaxAttempts =>
           row'[r].attempts + Pending(r)' + Cardinality(Grants(r)')
             <= MaxAttempts + extra'[r]
  BY <1>3, <1>4, <1>5, <1>6
<1> QED  BY <1>3, <1>7, <1>8 DEF InBudget

LEMMA NoRowNoHolder ==
  ASSUME TypeOK, NEW r \in Rows, row[r] = None
  PROVE  Holders(r) = {}
<1>1. None \notin Rows
  BY NoneAssumption
<1> QED  BY <1>1 DEF TypeOK, Holders, Holds

\* A row there was not before is one that a suppression has just planned.
LEMMA NewRowsAreInBudget ==
  ASSUME TypeOK, Booked, TypeOK', Booked', [Next]_vars, NEW r \in Rows, row[r] = None
  PROVE  InBudget(r)'
<1>1. CASE row'[r] = None
  <2>1. Holders(r)' = {}
    <3>1. None \notin Rows
      BY NoneAssumption
    <3> QED  BY <1>1, <3>1 DEF TypeOK, Holders, Holds
  <2> QED  BY <1>1, <2>1, FS_EmptySet DEF InBudget
<1>2. CASE row'[r] # None
  <2>1. PICK s \in Senders : Suppress(s)
    <3>1. (\E s \in Senders : Kinds(s)) \/ Receipts \/ UNCHANGED vars
      BY StepsStayTyped
    <3>2. ASSUME Receipts PROVE row'[r] = row[r]
      <4>1. ASSUME NEW q \in Rows, NEW m \in 1 .. sends[q], Delivered(q, m)
            PROVE  row'[r] = row[r]
        <5>1. q # r
          BY <4>1, DeliveredEffects
        <5> QED  BY <4>1, <5>1, DeliveredEffects
      <4>2. ASSUME NEW q \in Rows, NEW m \in 1 .. sends[q], Bounced(q, m)
            PROVE  row'[r] = row[r]
        <5>1. q # r
          BY <4>2, BouncedEffects
        <5> QED  BY <4>2, <5>1, BouncedEffects
      <4> QED  BY <3>2, <4>1, <4>2 DEF Receipts
    <3>3. ASSUME NEW s \in Senders, Kinds(s), ~Suppress(s)
          PROVE  row'[r] = row[r]
      <4>1. CASE LetsGo(s) \/ Fails(s) \/ Send(s)
        BY <4>1, SendEffects DEF LetsGo, Fails
      <4>2. CASE Takes(s)
        <5>1. PICK q \in Rows, status \in Open : Claim(s, q, status) /\ row[q].status = status
          BY <4>2 DEF Takes
        <5>2. row[q] # None /\ \A p \in Rows \ {q} : row'[p] = row[p]
          BY <5>1, ClaimTakes
        <5> QED  BY <1>2, <5>2
      <4>3. CASE RecordSent(s)
        <5>1. row[job[s].row] # None /\ \A p \in Rows \ {job[s].row} : row'[p] = row[p]
          BY <4>3, RecordSentEffects
        <5> QED  BY <5>1
      <4>4. CASE WriteFailure(s)
        <5>1. row[job[s].row] # None /\ \A p \in Rows \ {job[s].row} : row'[p] = row[p]
          BY <4>4, WriteFailureEffects
        <5> QED  BY <5>1
      <4> QED  BY <3>3, <4>1, <4>2, <4>3, <4>4 DEF Kinds
    <3>4. UNCHANGED vars => row'[r] = row[r]
      BY DEF vars
    <3> QED  BY <1>2, <3>1, <3>2, <3>3, <3>4
  <2>2. /\ Others(s) /\ \A q \in Rows : ~Holds(s, q)'
        /\ row[job[s].row] # None /\ extra' = extra
        /\ \A q \in Rows \ {job[s].row} : row'[q] = row[q] \/ row'[q] = Planned
    BY <2>1, SuppressEffects DEF Others
  <2>3. row'[r] = Planned
    BY <1>2, <2>2
  <2>4. Holders(r)' = {}
    BY <2>2, LettingGo, NoRowNoHolder
  <2>5. IsFiniteSet(Holders(r)') /\ Cardinality(Holders(r)') = 0
    BY <2>4, FS_EmptySet
  <2>6. Pending(r)' = 1 /\ row'[r].attempts = 0
    BY <2>3 DEF Pending, Planned
  <2>7. extra'[r] \in Nat /\ MaxAttempts \in Nat /\ MaxAttempts > 0
    BY MaxAttemptsAssumption DEF Booked
  <2> QED  BY <2>5, <2>6, <2>7 DEF InBudget
<1> QED  BY <1>1, <1>2

\* A claim: of a PENDING row, which has been paid for, or of a PROCESSING one,
\* which the reclaim pays for.
LEMMA ClaimsAreInBudget ==
  ASSUME TypeOK, Booked, TypeOK', Booked', NEW s \in Senders, NEW q \in Rows,
         NEW status \in Open, Claim(s, q, status), row[q].status = status,
         NEW r \in Rows, InBudget(r), row[r] # None
  PROVE  InBudget(r)'
<1>1. /\ job[s] # None /\ job[s].row = None
      /\ job'[s] # None /\ job'[s].row = q /\ job'[s].at = "deliver"
      /\ \A t \in Senders : t # s => job'[t] = job[t]
      /\ row'[q] # None /\ row'[q].status = "PROCESSING"
      /\ row'[q].attempts = row[q].attempts + 1
      /\ \A p \in Rows \ {q} : row'[p] = row[p]
      /\ IF status = "PROCESSING" THEN extra' = [extra EXCEPT ![q] = @ + 1]
         ELSE extra' = extra
  BY ClaimTakes
<1>2. r # None /\ q # None
  BY NoneAssumption
<1>3. Grants(r)' = Grants(r)
  BY <1>1, <1>2 DEF Grants, Holders, Holds
<1>4. CASE r # q
  <2>1. Holders(r)' = Holders(r)
    BY <1>1, <1>2, <1>4 DEF Holders, Holds
  <2>2. row'[r] = row[r] /\ extra'[r] = extra[r]
    BY <1>1, <1>4 DEF Booked
  <2> QED  BY <1>3, <2>1, <2>2, LessIsInBudget
<1>5. CASE r = q
  <2>1. Holders(r)' = Holders(r) \union {s} /\ s \notin Holders(r)
    BY <1>1, <1>2, <1>5 DEF Holders, Holds
  <2>2. IsFiniteSet(Holders(r))
    BY DEF InBudget
  <2>3. /\ IsFiniteSet(Holders(r)')
        /\ Cardinality(Holders(r)') = Cardinality(Holders(r)) + 1
    BY <2>1, <2>2, FS_AddElement
  <2>4. /\ row[r].attempts \in Nat /\ extra[r] \in Nat /\ Pending(r) \in {0, 1}
        /\ Cardinality(Holders(r)) \in Nat /\ Cardinality(Grants(r)) \in Nat
        /\ Cardinality(Grants(r)) <= Cardinality(Holders(r)) /\ MaxAttempts \in Nat
    BY <2>2, BudgetNumbers
  <2>5. /\ Cardinality(Holders(r)) + Pending(r) <= 1 + extra[r]
        /\ row[r].attempts >= MaxAttempts =>
             row[r].attempts + Pending(r) + Cardinality(Grants(r))
               <= MaxAttempts + extra[r]
    BY DEF InBudget
  <2>6. Pending(r)' = 0
    BY <1>1, <1>5 DEF Pending
  <2>7. \/ Pending(r) = 1 /\ extra'[r] = extra[r]
        \/ Pending(r) = 0 /\ extra'[r] = extra[r] + 1
    BY <1>1, <1>5 DEF Pending, Booked, Open
  <2>8. Cardinality(Holders(r)') + Pending(r)' <= 1 + extra'[r]
    BY <2>3, <2>4, <2>5, <2>6, <2>7
  <2>9. row'[r].attempts >= MaxAttempts =>
          row'[r].attempts + Pending(r)' + Cardinality(Grants(r))
            <= MaxAttempts + extra'[r]
    BY <1>1, <1>5, <2>4, <2>5, <2>6, <2>7
  <2> QED  BY <1>3, <2>3, <2>8, <2>9 DEF InBudget
<1> QED  BY <1>4, <1>5

\* A failure that is counted grants nothing once the attempts are used up.
LEMMA FailuresAreInBudget ==
  ASSUME TypeOK, Booked, TypeOK', Booked', NEW s \in Senders, Fails(s),
         NEW r \in Rows, InBudget(r), row[r] # None
  PROVE  InBudget(r)'
<1>1. /\ job[s] # None /\ job[s].row \in Rows /\ job[s].at # "record"
      /\ job'[s] # None /\ job'[s].row = job[s].row /\ Others(s)
      /\ \/ job'[s].at = "failed"
         \/ job'[s].at = "record" /\ job'[s].attempts = row[job[s].row].attempts
      /\ row' = row /\ extra' = extra
  BY DEF Fails
<1>2. Holders(r)' = Holders(r) /\ Grants(r)' \ {s} = Grants(r) \ {s}
  BY <1>1, HoldingOn
<1>3. s \notin Grants(r)
  BY <1>1 DEF Grants
<1>4. IsFiniteSet(Holders(r))
  BY DEF InBudget
<1>5. CASE s \notin Grants(r)'
  <2>1. Grants(r)' \subseteq Grants(r)
    BY <1>2, <1>5
  <2> QED  BY <1>1, <1>2, <2>1, LessIsInBudget
<1>6. CASE s \in Grants(r)'
  <2>1. row[r].attempts < MaxAttempts
    BY <1>1, <1>6 DEF Grants, Holders, Holds
  <2>2. row[r].attempts \in Nat /\ MaxAttempts \in Nat
    BY <1>4, BudgetNumbers
  <2>3. ~(row'[r].attempts >= MaxAttempts) /\ Pending(r)' = Pending(r)
    BY <1>1, <2>1, <2>2 DEF Pending
  <2> QED  BY <1>1, <1>2, <2>3 DEF InBudget
<1> QED  BY <1>5, <1>6

\* A failure that is written and puts the row back uses up a grant.
LEMMA RetriesAreInBudget ==
  ASSUME TypeOK, Booked, TypeOK', Booked', NEW s \in Senders, WriteFailure(s),
         NEW r \in Rows, InBudget(r), row[r] # None
  PROVE  InBudget(r)'
<1>1. /\ Others(s) /\ \A q \in Rows : ~Holds(s, q)'
      /\ extra' = extra
      /\ job[s] # None /\ job[s].at = "record" /\ job[s].row \in Rows
      /\ row'[job[s].row] # None
      /\ row'[job[s].row].status =
           IF job[s].retryable /\ job[s].attempts < MaxAttempts
           THEN "PENDING" ELSE "FAILED"
      /\ row'[job[s].row].attempts = row[job[s].row].attempts
      /\ \A q \in Rows \ {job[s].row} : row'[q] = row[q]
  BY WriteFailureEffects DEF Others
<1>2. Holders(r)' = Holders(r) \ {s} /\ Grants(r)' = Grants(r) \ {s}
  BY <1>1, LettingGo
<1>3. CASE r # job[s].row
  <2>1. row'[r] = row[r]
    BY <1>1, <1>3
  <2> QED  BY <1>1, <1>2, <2>1, LessIsInBudget
<1>4. CASE r = job[s].row /\ row'[r].status = "FAILED"
  BY <1>1, <1>2, <1>4, LessIsInBudget
<1>5. CASE r = job[s].row /\ row'[r].status # "FAILED"
  <2>1. /\ row'[r].status = "PENDING" /\ job[s].retryable
        /\ job[s].attempts < MaxAttempts
    BY <1>1, <1>5
  <2>2. s \in Holders(r) /\ s \in Grants(r)
    BY <1>1, <1>5, <2>1 DEF Grants, Holders, Holds
  <2>3. IsFiniteSet(Holders(r))
    BY DEF InBudget
  <2>4. /\ row[r].attempts \in Nat /\ extra[r] \in Nat /\ Pending(r) \in {0, 1}
        /\ Cardinality(Holders(r)) \in Nat /\ Cardinality(Grants(r)) \in Nat
        /\ IsFiniteSet(Grants(r)) /\ MaxAttempts \in Nat
    BY <2>3, BudgetNumbers
  <2>5. /\ IsFiniteSet(Holders(r)')
        /\ Cardinality(Holders(r)') = Cardinality(Holders(r)) - 1
        /\ Cardinality(Grants(r)') = Cardinality(Grants(r)) - 1
    <3>1. /\ IsFiniteSet(Holders(r) \ {s})
          /\ Cardinality(Holders(r) \ {s}) = Cardinality(Holders(r)) - 1
      BY <2>2, <2>3, FS_RemoveElement
    <3>2. Cardinality(Grants(r) \ {s}) = Cardinality(Grants(r)) - 1
      BY <2>2, <2>4, FS_RemoveElement
    <3> QED  BY <1>2, <3>1, <3>2
  <2>6. /\ Cardinality(Holders(r)) + Pending(r) <= 1 + extra[r]
        /\ row[r].attempts >= MaxAttempts =>
             row[r].attempts + Pending(r) + Cardinality(Grants(r))
               <= MaxAttempts + extra[r]
    BY DEF InBudget
  <2>7. Pending(r)' = 1
    BY <2>1 DEF Pending
  <2>8. Cardinality(Holders(r)') + Pending(r)' <= 1 + extra'[r]
    BY <1>1, <2>4, <2>5, <2>6, <2>7
  <2>9. row'[r].attempts >= MaxAttempts =>
          row'[r].attempts + Pending(r)' + Cardinality(Grants(r)')
            <= MaxAttempts + extra'[r]
    BY <1>1, <1>5, <2>4, <2>5, <2>6, <2>7
  <2> QED  BY <2>5, <2>8, <2>9 DEF InBudget
<1> QED  BY <1>3, <1>4, <1>5

\* A bounce that puts a row back pays for what it gives.
LEMMA BouncesAreInBudget ==
  ASSUME TypeOK, Booked, TypeOK', Booked', NEW q \in Rows, NEW m \in 1 .. sends[q],
         Bounced(q, m), NEW r \in Rows, InBudget(r), row[r] # None
  PROVE  InBudget(r)'
<1>1. /\ job' = job /\ row'[q] # None
      /\ \/ /\ row[q].status = "SENT" /\ row'[q].status = "PENDING"
            /\ row'[q].attempts = row[q].attempts
            /\ \A p \in Rows \ {q} : row'[p] = row[p]
            /\ extra' = [extra EXCEPT ![q] = @ + 1]
         \/ UNCHANGED <<row, extra>>
  BY BouncedEffects
<1>2. Holders(r)' = Holders(r) /\ Grants(r)' = Grants(r)
  BY <1>1 DEF Holders, Grants, Holds
<1>3. CASE row'[r] = row[r] /\ extra'[r] = extra[r]
  BY <1>2, <1>3, LessIsInBudget
<1>4. CASE ~(row'[r] = row[r] /\ extra'[r] = extra[r])
  <2>1. /\ r = q /\ row[r].status = "SENT" /\ row'[r].status = "PENDING"
        /\ row'[r].attempts = row[r].attempts /\ extra'[r] = extra[r] + 1
    BY <1>1, <1>4 DEF Booked
  <2>2. IsFiniteSet(Holders(r))
    BY DEF InBudget
  <2>3. /\ row[r].attempts \in Nat /\ extra[r] \in Nat
        /\ Cardinality(Holders(r)) \in Nat /\ Cardinality(Grants(r)) \in Nat
        /\ MaxAttempts \in Nat
    BY <2>2, BudgetNumbers
  <2>4. Pending(r) = 0 /\ Pending(r)' = 1
    BY <2>1 DEF Pending
  <2>5. /\ Cardinality(Holders(r)) + 0 <= 1 + extra[r]
        /\ row[r].attempts >= MaxAttempts =>
             row[r].attempts + 0 + Cardinality(Grants(r)) <= MaxAttempts + extra[r]
    BY <2>4 DEF InBudget
  <2>6. Cardinality(Holders(r)) + 1 <= 1 + extra'[r]
    BY <2>1, <2>3, <2>5
  <2>7. row'[r].attempts >= MaxAttempts =>
          row'[r].attempts + 1 + Cardinality(Grants(r)) <= MaxAttempts + extra'[r]
    BY <2>1, <2>3, <2>5
  <2> QED  BY <1>2, <2>2, <2>4, <2>6, <2>7 DEF InBudget
<1> QED  BY <1>3, <1>4

LEMMA BudgetStays ==
  ASSUME TypeOK, Booked, [Next]_vars, NEW r \in Rows, InBudget(r)
  PROVE  InBudget(r)'
<1>1. TypeOK' /\ Booked'
  BY StepsStayTyped
<1>2. (\E s \in Senders : Kinds(s)) \/ Receipts \/ UNCHANGED vars
  BY StepsStayTyped
<1>3. CASE row[r] = None
  BY <1>1, <1>3, NewRowsAreInBudget
<1>4. CASE row[r] # None
  <2>1. CASE UNCHANGED vars
    BY <2>1 DEF vars, InBudget, Holders, Holds, Grants, Pending
  <2>2. ASSUME NEW q \in Rows, NEW m \in 1 .. sends[q], Delivered(q, m)
        PROVE  InBudget(r)'
    <3>1. /\ UNCHANGED <<job, extra>> /\ row'[q] # None
          /\ \/ row' = row
             \/ /\ row'[q].status = "DELIVERED" /\ row'[q].attempts = row[q].attempts
                /\ \A p \in Rows \ {q} : row'[p] = row[p]
      BY <2>2, DeliveredEffects
    <3>2. Holders(r)' = Holders(r) /\ Grants(r)' = Grants(r)
      BY <3>1 DEF Holders, Grants, Holds
    <3>3. /\ row'[r] # None /\ row'[r].attempts = row[r].attempts
          /\ row'[r].status = "PENDING" => row[r].status = "PENDING"
      BY <1>4, <3>1
    <3> QED  BY <1>1, <1>4, <3>1, <3>2, <3>3, LessIsInBudget
  <2>3. ASSUME NEW q \in Rows, NEW m \in 1 .. sends[q], Bounced(q, m)
        PROVE  InBudget(r)'
    BY <1>1, <1>4, <2>3, BouncesAreInBudget
  <2>4. ASSUME NEW s \in Senders, Kinds(s)
        PROVE  InBudget(r)'
    <3>1. CASE LetsGo(s)
      <4>1. Holders(r)' = Holders(r) \ {s} /\ Grants(r)' = Grants(r) \ {s}
        BY <3>1, LettingGo DEF LetsGo
      <4>2. row' = row /\ extra' = extra
        BY <3>1 DEF LetsGo
      <4> QED  BY <1>1, <1>4, <4>1, <4>2, LessIsInBudget
    <3>2. CASE Takes(s)
      BY <1>1, <1>4, <3>2, ClaimsAreInBudget DEF Takes
    <3>3. CASE Send(s)
      <4>1. /\ job[s] # None /\ job[s].at = "deliver" /\ Others(s)
            /\ job'[s] # None /\ job'[s].at = "sent" /\ job'[s].row = job[s].row
            /\ row' = row /\ extra' = extra
        BY <3>3, SendEffects DEF Others
      <4>2. Holders(r)' = Holders(r) /\ Grants(r)' \ {s} = Grants(r) \ {s}
        BY <4>1, HoldingOn
      <4>3. s \notin Grants(r)'
        BY <4>1 DEF Grants
      <4> QED  BY <1>1, <1>4, <4>1, <4>2, <4>3, LessIsInBudget
    <3>4. CASE Fails(s)
      BY <1>1, <1>4, <3>4, FailuresAreInBudget
    <3>5. CASE Suppress(s)
      <4>1. /\ Others(s) /\ \A q \in Rows : ~Holds(s, q)' 
            /\ extra' = extra /\ row'[job[s].row] # None
            /\ row'[job[s].row].status = "SUPPRESSED"
            /\ row'[job[s].row].attempts = row[job[s].row].attempts
            /\ \A q \in Rows \ {job[s].row} : row'[q] = row[q] \/ row[q] = None
        BY <3>5, SuppressEffects DEF Others
      <4>2. Holders(r)' = Holders(r) \ {s} /\ Grants(r)' = Grants(r) \ {s}
        BY <4>1, LettingGo
      <4>3. /\ row'[r] # None /\ row'[r].attempts = row[r].attempts
            /\ row'[r].status = "PENDING" => row[r].status = "PENDING"
        BY <1>4, <4>1
      <4> QED  BY <1>1, <1>4, <4>1, <4>2, <4>3, LessIsInBudget
    <3>6. CASE RecordSent(s)
      <4>1. /\ Others(s) /\ \A q \in Rows : ~Holds(s, q)'
            /\ extra' = extra /\ row'[job[s].row] # None
            /\ row'[job[s].row].status = "SENT"
            /\ row'[job[s].row].attempts = row[job[s].row].attempts
            /\ \A q \in Rows \ {job[s].row} : row'[q] = row[q]
        BY <3>6, RecordSentEffects DEF Others
      <4>2. Holders(r)' = Holders(r) \ {s} /\ Grants(r)' = Grants(r) \ {s}
        BY <4>1, LettingGo
      <4>3. /\ row'[r] # None /\ row'[r].attempts = row[r].attempts
            /\ row'[r].status = "PENDING" => row[r].status = "PENDING"
        BY <1>4, <4>1
      <4> QED  BY <1>1, <1>4, <4>1, <4>2, <4>3, LessIsInBudget
    <3>7. CASE WriteFailure(s)
      BY <1>1, <1>4, <3>7, RetriesAreInBudget
    <3> QED  BY <2>4, <3>1, <3>2, <3>3, <3>4, <3>5, <3>6, <3>7 DEF Kinds
  <2> QED  BY <1>2, <2>1, <2>2, <2>3, <2>4 DEF Receipts
<1> QED  BY <1>3, <1>4

(***************************************************************************)
(* A DELIVERED row names a delivered message and a SENT one a message that *)
(* was taken and has not bounced, unless it bounced before it was          *)
(* recorded; and a row is attempted MaxAttempts times, and once more for   *)
(* every reclaim and every bounce, with any number of workers (claim,      *)
(* recordFailure and recordStatus, which write by id).                     *)
(***************************************************************************)
THEOREM StatusesAreTrue == Spec => []StatusIsTrue
<1> DEFINE Budgets == \A r \in Rows : InBudget(r)
           IInv == Truth /\ Budgets
           Typed == TypeOK /\ Booked
<1>1. ASSUME Init PROVE IInv
  <2>1. /\ \A s \in Senders : job[s] = None
        /\ \A r \in Rows : row[r] \in {Planned, None}
        /\ \A r \in Rows : extra[r] = 0
    BY <1>1 DEF Init
  <2>2. \A r \in Rows : row[r] # None => row[r].status = "PENDING" /\ row[r].attempts = 0
    BY <2>1 DEF Planned
  <2>3. Truth
    BY <2>1, <2>2 DEF Truth, Recorded, Truthful
  <2>4. ASSUME NEW r \in Rows PROVE InBudget(r)
    <3>1. Holders(r) = {}
      BY <2>1 DEF Holders, Holds
    <3>2. IsFiniteSet(Holders(r)) /\ Cardinality(Holders(r)) = 0
      BY <3>1, FS_EmptySet
    <3>3. row[r] # None => Pending(r) = 1 /\ row[r].attempts = 0
      BY <2>2 DEF Pending
    <3> QED  BY <2>1, <3>2, <3>3, MaxAttemptsAssumption DEF InBudget
  <2> QED  BY <2>3, <2>4
<1>2. ASSUME IInv, Typed, [Next]_vars PROVE IInv'
  <2>1. /\ TypeOK' /\ Booked'
        /\ (\E s \in Senders : Kinds(s)) \/ Receipts \/ UNCHANGED vars
    BY <1>2, StepsStayTyped
  <2>2. Truth'
    BY <1>2, <2>1, RecordedStays, TruthfulStays DEF Truth
  <2>3. Budgets'
    BY <1>2, BudgetStays
  <2> QED  BY <2>2, <2>3
<1>3. ASSUME IInv, Typed PROVE StatusIsTrue
  <2> SUFFICES ASSUME NEW r \in Rows, row[r] # None
               PROVE  Truthful(r) /\ row[r].attempts <= MaxAttempts + extra[r]
    BY DEF StatusIsTrue, Truthful
  <2>1. InBudget(r) /\ IsFiniteSet(Holders(r))
    BY <1>3 DEF InBudget
  <2>2. /\ row[r].attempts \in Nat /\ extra[r] \in Nat /\ Pending(r) \in {0, 1}
        /\ Cardinality(Grants(r)) \in Nat /\ MaxAttempts \in Nat
    BY <1>3, <2>1, BudgetNumbers
  <2>3. row[r].attempts <= MaxAttempts + extra[r]
    BY <2>1, <2>2 DEF InBudget
  <2> QED  BY <1>3, <2>3 DEF Truth
<1> QED  BY <1>1, <1>2, <1>3, TypeCorrect, PTL DEF Spec

----------------------------------------------------------------------------
(* Who is told twice.  A row nothing has excused has one holder, which is  *)
(* the worker that found it PENDING, and its message is out once; and of a *)
(* first-available notice only the last row is not SUPPRESSED.             *)

OneAtATime(r) ==
  row[r] # None =>
    /\ \A s, t \in Senders : Holds(s, r) /\ Holds(t, r) => s = t
    /\ \A s \in Senders : Holds(s, r) => row[r].status = "PROCESSING"
    /\ row[r].message # NoMessage => row[r].status \in {"SENT", "DELIVERED"}
    /\ sends[r] > 0 =>
         /\ sends[r] = 1
         /\ \/ row[r].status \in {"SENT", "DELIVERED"}
            \/ \E s \in Senders : Holds(s, r) /\ job[s].at = "sent"

OneChannel(n) ==
  mode[n] = "first-available" =>
    \A c, d \in Channels :
      c < d /\ row[<<n, c>>] # None /\ row[<<n, d>>] # None =>
        row[<<n, c>>].status = "SUPPRESSED"

\* A holder that has not sent holds a row of which nothing is out.
LEMMA NothingOutYet ==
  ASSUME NEW r \in Rows, OneAtATime(r), row[r] # None, NEW s \in Senders,
         Holds(s, r), job[s].at # "sent", sends[r] \in Nat
  PROVE  sends[r] = 0 /\ row[r].status = "PROCESSING" /\ row[r].message = NoMessage
BY DEF OneAtATime

\* A row whose status no worker that holds it may have found.
LEMMA NoHolderUnlessProcessing ==
  ASSUME NEW r \in Rows, OneAtATime(r), row[r] # None, row[r].status # "PROCESSING"
  PROVE  \A s \in Senders : ~Holds(s, r)
BY DEF OneAtATime

LEMMA OthersHold ==
  ASSUME NEW s \in Senders, Others(s), NEW t \in Senders, t # s, NEW r \in Rows
  PROVE  (Holds(t, r)' <=> Holds(t, r)) /\ job'[t] = job[t]
BY DEF Others, Holds

\* After its end a worker holds no row, and the only one to hold its row was it.
LEMMA EndsAreClean ==
  ASSUME NEW s \in Senders, Others(s), \A q \in Rows : ~Holds(s, q)',
         NEW r \in Rows, OneAtATime(r), row[r] # None, Holds(s, r)
  PROVE  \A t \in Senders : ~Holds(t, r)'
BY OthersHold DEF OneAtATime

\* Rows that a step leaves alone, with their messages.
LEMMA StandingRows ==
  ASSUME NEW s \in Senders, Others(s), NEW r \in Rows, OneAtATime(r),
         row'[r] = row[r], sends'[r] = sends[r], ~Holds(s, r), ~Holds(s, r)'
  PROVE  OneAtATime(r)'
<1>1. \A t \in Senders : (Holds(t, r)' <=> Holds(t, r)) /\ (t # s => job'[t] = job[t])
  BY OthersHold
<1> QED  BY <1>1 DEF OneAtATime

LEMMA EndsTellOnce ==
  ASSUME TypeOK, Booked, NEW s \in Senders,
         Suppress(s) \/ RecordSent(s) \/ WriteFailure(s),
         NEW r \in Rows, OneAtATime(r), row'[r] # None
  PROVE  OneAtATime(r)'
<1>1. /\ Others(s) /\ \A q \in Rows : ~Holds(s, q)'
      /\ sends' = sends /\ job[s] # None /\ job[s].row \in Rows
      /\ row[job[s].row] # None
  BY SuppressEffects, RecordSentEffects, WriteFailureEffects DEF Others
<1>2. sends[r] \in Nat
  BY DEF TypeOK
<1>3. CASE job[s].row # r /\ row'[r] = row[r]
  BY <1>1, <1>3, StandingRows DEF Holds
<1>4. CASE job[s].row # r /\ row'[r] # row[r]
  <2>1. Suppress(s)
    BY <1>4, RecordSentEffects, WriteFailureEffects
  <2>2. row[r] = None /\ row'[r] = Planned
    BY <1>4, <2>1, SuppressEffects
  <2>3. sends[r] = 0
    BY <1>2, <2>2 DEF Booked
  <2>4. \A t \in Senders : ~Holds(t, r)
    BY <2>2, NoRowNoHolder DEF Holders
  <2>5. \A t \in Senders : ~Holds(t, r)'
    BY <1>1, <2>4, OthersHold
  <2> QED  BY <1>1, <2>2, <2>3, <2>5 DEF OneAtATime, Planned
<1>5. CASE job[s].row = r
  <2>1. Holds(s, r) /\ row[r] # None
    BY <1>1, <1>5 DEF Holds
  <2>2. \A t \in Senders : ~Holds(t, r)'
    BY <1>1, <2>1, EndsAreClean
  <2>3. CASE RecordSent(s)
    <3>1. row'[r].status = "SENT"
      BY <1>5, <2>3, RecordSentEffects
    <3>2. sends[r] > 0 => sends[r] = 1
      BY <2>1 DEF OneAtATime
    <3> QED  BY <1>1, <2>2, <3>1, <3>2 DEF OneAtATime
  <2>4. CASE Suppress(s) \/ WriteFailure(s)
    <3>1. job[s].at # "sent" /\ row'[r].message = row[r].message
      BY <1>5, <2>4, SuppressEffects, WriteFailureEffects
    <3>2. sends[r] = 0 /\ row[r].message = NoMessage
      BY <1>2, <2>1, <3>1, NothingOutYet
    <3> QED  BY <1>1, <2>2, <3>1, <3>2 DEF OneAtATime
  <2> QED  BY <2>3, <2>4
<1> QED  BY <1>3, <1>4, <1>5

LEMMA ClaimsTellOnce ==
  ASSUME TypeOK, Booked, NEW s \in Senders, NEW q \in Rows, NEW status \in Open,
         Claim(s, q, status), row[q].status = status,
         NEW r \in Rows, OneAtATime(r), r[1] \notin excused'
  PROVE  OneAtATime(r)'
<1>1. /\ job[s] # None /\ job[s].row = None
      /\ job'[s] # None /\ job'[s].row = q /\ job'[s].at = "deliver" /\ Others(s)
      /\ row[q] # None /\ row'[q] # None /\ row'[q].status = "PROCESSING"
      /\ row'[q].message = row[q].message
      /\ \A p \in Rows \ {q} : row'[p] = row[p]
      /\ status = "PROCESSING" => excused' = excused \union {q[1]}
      /\ sends' = sends
  BY ClaimTakes DEF Others
<1>2. r # None /\ ~Holds(s, r)
  BY <1>1, NoneAssumption DEF Holds
<1>3. CASE r # q
  BY <1>1, <1>2, <1>3, StandingRows DEF Holds
<1>4. CASE r = q
  <2>1. row[r].status = "PENDING"
    BY <1>1, <1>4 DEF Open
  <2>2. \A t \in Senders : ~Holds(t, r)
    BY <1>1, <1>4, <2>1, NoHolderUnlessProcessing
  <2>3. /\ row[r].message = NoMessage /\ ~(sends[r] > 0)
    BY <1>1, <1>4, <2>1, <2>2 DEF OneAtATime
  <2>4. \A t \in Senders : Holds(t, r)' => t = s
    BY <1>1, <2>2, OthersHold
  <2> QED  BY <1>1, <1>4, <2>3, <2>4 DEF OneAtATime
<1> QED  BY <1>3, <1>4

LEMMA SendsTellOnce ==
  ASSUME TypeOK, Booked, NEW s \in Senders, Send(s), NEW r \in Rows, OneAtATime(r),
         row[r] # None
  PROVE  OneAtATime(r)'
<1>1. /\ job[s] # None /\ job[s].at = "deliver" /\ job[s].row \in Rows
      /\ job'[s] # None /\ job'[s].at = "sent" /\ job'[s].row = job[s].row
      /\ Others(s) /\ sends' = [sends EXCEPT ![job[s].row] = @ + 1] /\ row' = row
  BY SendEffects DEF Others
<1>2. sends[r] \in Nat /\ sends \in [Rows -> Nat]
  BY DEF TypeOK
<1>3. CASE job[s].row # r
  BY <1>1, <1>2, <1>3, StandingRows DEF Holds
<1>4. CASE job[s].row = r
  <2>1. Holds(s, r) /\ Holds(s, r)'
    BY <1>1, <1>4 DEF Holds
  <2>2. sends[r] = 0 /\ row[r].status = "PROCESSING" /\ row[r].message = NoMessage
    BY <1>1, <1>2, <2>1, NothingOutYet
  <2>3. sends'[r] = 1
    BY <1>1, <1>2, <1>4, <2>2
  <2>4. \A t \in Senders : Holds(t, r)' => t = s
    BY <1>1, <2>1, OthersHold DEF OneAtATime
  <2> QED  BY <1>1, <2>1, <2>2, <2>3, <2>4 DEF OneAtATime
<1> QED  BY <1>3, <1>4

\* Steps that keep or drop a row without a word, when what was out is excused.
LEMMA SilenceTellsOnce ==
  ASSUME TypeOK, Booked, NEW s \in Senders, LetsGo(s) \/ Fails(s),
         NEW r \in Rows, OneAtATime(r), r[1] \notin excused'
  PROVE  OneAtATime(r)'
<1>1. Others(s) /\ row' = row /\ sends' = sends
  BY DEF LetsGo, Fails
<1>2. Holds(s, r) => job[s].at # "sent"
  BY DEF LetsGo, Fails, Holds
<1>3. Holds(s, r)' => Holds(s, r)
  BY DEF LetsGo, Fails, Holds
<1>4. \A t \in Senders : /\ Holds(t, r)' => Holds(t, r)
                         /\ t # s /\ Holds(t, r) => Holds(t, r)' /\ job'[t] = job[t]
  BY <1>1, <1>3, OthersHold
<1> QED  BY <1>1, <1>2, <1>4 DEF OneAtATime

LEMMA ReceiptsTellOnce ==
  ASSUME TypeOK, Booked, Receipts, NEW r \in Rows, OneAtATime(r), r[1] \notin excused'
  PROVE  OneAtATime(r)'
<1>1. ASSUME NEW q \in Rows, NEW m \in 1 .. sends[q], Delivered(q, m)
      PROVE  OneAtATime(r)'
  <2>1. /\ UNCHANGED <<job, sends>> /\ row[q] # None
        /\ \/ row' = row
           \/ /\ row[q].message = m /\ row'[q].status = "DELIVERED"
              /\ \A p \in Rows \ {q} : row'[p] = row[p]
    BY <1>1, DeliveredEffects
  <2>2. CASE row'[r] = row[r]
    BY <2>1, <2>2 DEF OneAtATime, Holds
  <2>3. CASE row'[r] # row[r]
    <3>1. /\ q = r /\ row[r] # None /\ row[r].message = m
          /\ row'[r].status = "DELIVERED"
      BY <2>1, <2>3
    <3>2. row[r].message # NoMessage
      BY <1>1, <3>1 DEF NoMessage, TypeOK
    <3>3. row[r].status \in {"SENT", "DELIVERED"}
      BY <3>1, <3>2 DEF OneAtATime
    <3>4. \A t \in Senders : ~Holds(t, r)
      BY <3>1, <3>3, NoHolderUnlessProcessing
    <3>5. sends[r] > 0 => sends[r] = 1
      BY <3>1 DEF OneAtATime
    <3> QED  BY <2>1, <3>1, <3>4, <3>5 DEF OneAtATime, Holds
  <2> QED  BY <2>2, <2>3
<1>2. ASSUME NEW q \in Rows, NEW m \in 1 .. sends[q], Bounced(q, m)
      PROVE  OneAtATime(r)'
  <2>1. /\ UNCHANGED <<job, sends>>
        /\ \/ /\ \A p \in Rows \ {q} : row'[p] = row[p]
              /\ excused' = excused \union {q[1]}
           \/ row' = row
    BY <1>2, BouncedEffects
  <2>2. row'[r] = row[r]
    BY <2>1
  <2> QED  BY <2>1, <2>2 DEF OneAtATime, Holds
<1> QED  BY <1>1, <1>2 DEF Receipts

\* A suppressed row nobody holds, and no receipt speaks of it.
LEMMA SuppressedStays ==
  ASSUME TypeOK, Booked, (\E s \in Senders : Kinds(s)) \/ Receipts \/ UNCHANGED vars,
         NEW r \in Rows, OneAtATime(r), row[r] # None, row[r].status = "SUPPRESSED"
  PROVE  row'[r] = row[r]
<1>1. \A s \in Senders : ~Holds(s, r)
  BY NoHolderUnlessProcessing
<1>2. row[r].message = NoMessage
  BY DEF OneAtATime
<1>3. ASSUME NEW q \in Rows, NEW m \in 1 .. sends[q], Delivered(q, m) \/ Bounced(q, m)
      PROVE  row'[r] = row[r]
  <2>1. m # NoMessage
    BY <1>3 DEF NoMessage, TypeOK
  <2>2. row' = row \/ (row[q].message = m /\ \A p \in Rows \ {q} : row'[p] = row[p])
    BY <1>3, DeliveredEffects, BouncedEffects
  <2> QED  BY <1>2, <2>1, <2>2
<1>4. ASSUME NEW s \in Senders, Suppress(s) \/ RecordSent(s) \/ WriteFailure(s)
      PROVE  row'[r] = row[r]
  <2>1. /\ job[s] # None
        /\ \A q \in Rows \ {job[s].row} : row'[q] = row[q] \/ row[q] = None
    BY <1>4, SuppressEffects, RecordSentEffects, WriteFailureEffects
  <2> QED  BY <1>1, <2>1 DEF Holds
<1>5. ASSUME NEW s \in Senders, Takes(s)
      PROVE  row'[r] = row[r]
  <2>1. PICK q \in Rows, status \in Open : Claim(s, q, status) /\ row[q].status = status
    BY <1>5 DEF Takes
  <2>2. q # r
    BY <2>1 DEF Open
  <2> QED  BY <2>1, <2>2, ClaimTakes
<1>6. ASSUME NEW s \in Senders, LetsGo(s) \/ Fails(s) \/ Send(s)
      PROVE  row'[r] = row[r]
  BY <1>6, SendEffects DEF LetsGo, Fails
<1> QED  BY <1>3, <1>4, <1>5, <1>6 DEF Kinds, Receipts, vars

\* Only a suppression plans another row.
LEMMA NewRowsArePromoted ==
  ASSUME TypeOK, Booked, (\E s \in Senders : Kinds(s)) \/ Receipts \/ UNCHANGED vars,
         NEW r \in Rows, row[r] = None, row'[r] # None
  PROVE  \E s \in Senders : /\ Suppress(s) /\ job[s].row[1] = r[1]
                            /\ r[2] = job[s].row[2] + 1
<1>1. ~Receipts
  <2>1. ASSUME NEW q \in Rows, NEW m \in 1 .. sends[q], Delivered(q, m) \/ Bounced(q, m)
        PROVE  row'[r] = row[r]
    <3>1. row[q] # None /\ (row' = row \/ \A p \in Rows \ {q} : row'[p] = row[p])
      BY <2>1, DeliveredEffects, BouncedEffects
    <3> QED  BY <3>1
  <2> QED  BY <2>1 DEF Receipts
<1>2. ~UNCHANGED vars
  BY DEF vars
<1>3. PICK s \in Senders : Kinds(s)
  BY <1>1, <1>2
<1>4. ~(LetsGo(s) \/ Fails(s) \/ Send(s))
  BY SendEffects DEF LetsGo, Fails
<1>5. ~Takes(s)
  <2> SUFFICES ASSUME Takes(s) PROVE FALSE
    OBVIOUS
  <2>1. PICK q \in Rows, status \in Open : Claim(s, q, status) /\ row[q].status = status
    BY DEF Takes
  <2>2. row[q] # None /\ \A p \in Rows \ {q} : row'[p] = row[p]
    BY <2>1, ClaimTakes
  <2> QED  BY <2>2
<1>6. ~(RecordSent(s) \/ WriteFailure(s))
  <2> SUFFICES ASSUME RecordSent(s) \/ WriteFailure(s) PROVE FALSE
    OBVIOUS
  <2>1. row[job[s].row] # None /\ \A p \in Rows \ {job[s].row} : row'[p] = row[p]
    BY RecordSentEffects, WriteFailureEffects
  <2> QED  BY <2>1
<1>7. Suppress(s)
  BY <1>3, <1>4, <1>5, <1>6 DEF Kinds
<1>8. r = <<job[s].row[1], job[s].row[2] + 1>>
  <2>1. /\ row[job[s].row] # None
        /\ \A q \in Rows \ {job[s].row} :
             row'[q] = row[q] \/ q = <<job[s].row[1], job[s].row[2] + 1>>
    BY <1>7, SuppressEffects
  <2> QED  BY <2>1
<1> QED  BY <1>7, <1>8

\* Rows come one after the other, each when the one before is suppressed.
LEMMA OneChannelStays ==
  ASSUME TypeOK, Booked, (\E s \in Senders : Kinds(s)) \/ Receipts \/ UNCHANGED vars,
         NEW n \in Notices, OneChannel(n), \A c \in Channels : OneAtATime(<<n, c>>)
  PROVE  OneChannel(n)'
<1>1. \A c \in Channels : <<n, c>> \in Rows
  BY DEF Rows
<1>2. mode' = mode /\ (\A c \in Channels : c \in Int)
  <2>1. 1 \in Channels /\ \A c \in Channels : c \in Int
    BY LastChannelAssumption DEF Channels
  <2>2. <<n, 1>> \in Rows
    BY <1>1, <2>1
  <2> QED  BY <2>1, <2>2, MessagesGrow
<1> SUFFICES ASSUME mode[n] = "first-available", NEW c \in Channels, NEW d \in Channels,
                    c < d, row'[<<n, c>>] # None, row'[<<n, d>>] # None
             PROVE  row'[<<n, c>>].status = "SUPPRESSED"
  BY <1>2 DEF OneChannel
<1>3. CASE row[<<n, c>>] # None /\ row[<<n, d>>] # None
  <2>1. row[<<n, c>>].status = "SUPPRESSED"
    BY <1>3 DEF OneChannel
  <2> QED  BY <1>1, <1>3, <2>1, SuppressedStays
<1>4. CASE row[<<n, d>>] = None
  <2>1. PICK s \in Senders : /\ Suppress(s) /\ job[s].row[1] = n
                             /\ d = job[s].row[2] + 1
    BY <1>1, <1>4, NewRowsArePromoted
  <2>2. /\ job[s].row \in Rows /\ row[job[s].row] # None
        /\ row'[job[s].row].status = "SUPPRESSED"
    BY <2>1, SuppressEffects
  <2>3. PICK e \in Channels : job[s].row = <<n, e>>
    BY <2>1, <2>2 DEF Rows
  <2>4. d = e + 1 /\ c <= e
    BY <1>2, <2>1, <2>3
  <2>5. CASE c = e
    BY <2>2, <2>3, <2>5
  <2>6. CASE c < e
    <3>1. CASE row[<<n, c>>] # None
      <4>1. row[<<n, c>>].status = "SUPPRESSED"
        BY <2>2, <2>3, <2>6, <3>1 DEF OneChannel
      <4> QED  BY <1>1, <3>1, <4>1, SuppressedStays
    <3>2. CASE row[<<n, c>>] = None
      <4>1. row'[<<n, c>>] = row[<<n, c>>] \/ <<n, c>> = <<n, e + 1>>
        BY <1>1, <2>1, <2>3, <2>6, <1>2, SuppressEffects
      <4> QED  BY <1>2, <2>6, <3>2, <4>1
    <3> QED  BY <3>1, <3>2
  <2> QED  BY <1>2, <2>4, <2>5, <2>6
<1>5. CASE row[<<n, c>>] = None /\ row[<<n, d>>] # None
  <2>1. PICK s \in Senders : /\ Suppress(s) /\ job[s].row[1] = n
                             /\ c = job[s].row[2] + 1
    BY <1>1, <1>5, NewRowsArePromoted
  <2>2. /\ job[s] # None /\ job[s].row \in Rows /\ row[job[s].row] # None
    BY <2>1, SuppressEffects
  <2>3. PICK e \in Channels : job[s].row = <<n, e>>
    BY <2>1, <2>2 DEF Rows
  <2>4. e < d
    BY <1>2, <2>1, <2>3
  <2>5. row[<<n, e>>].status = "SUPPRESSED"
    BY <1>5, <2>2, <2>3, <2>4 DEF OneChannel
  <2>6. row[<<n, e>>].status = "PROCESSING"
    BY <1>1, <2>2, <2>3 DEF OneAtATime, Holds
  <2> QED  BY <2>5, <2>6
<1> QED  BY <1>3, <1>4, <1>5

LEMMA TellingOnceStays ==
  ASSUME TypeOK, Booked, [Next]_vars, NEW r \in Rows, OneAtATime(r), r[1] \notin excused'
  PROVE  OneAtATime(r)'
<1>1. (\E s \in Senders : Kinds(s)) \/ Receipts \/ UNCHANGED vars
  BY StepsStayTyped
<1>2. CASE UNCHANGED vars
  BY <1>2 DEF vars, OneAtATime, Holds
<1>3. CASE Receipts
  BY <1>3, ReceiptsTellOnce
<1>4. ASSUME NEW s \in Senders, Kinds(s)
      PROVE  OneAtATime(r)'
  <2>1. CASE LetsGo(s) \/ Fails(s)
    BY <2>1, SilenceTellsOnce
  <2>2. CASE Takes(s)
    BY <2>2, ClaimsTellOnce DEF Takes
  <2>3. CASE Send(s)
    <3>1. CASE row[r] # None
      BY <2>3, <3>1, SendsTellOnce
    <3>2. CASE row[r] = None
      BY <2>3, <3>2, SendEffects DEF OneAtATime
    <3> QED  BY <3>1, <3>2
  <2>4. CASE Suppress(s) \/ RecordSent(s) \/ WriteFailure(s)
    <3>1. CASE row'[r] # None
      BY <2>4, <3>1, EndsTellOnce
    <3>2. CASE row'[r] = None
      BY <3>2 DEF OneAtATime
    <3> QED  BY <3>1, <3>2
  <2> QED  BY <1>4, <2>1, <2>2, <2>3, <2>4 DEF Kinds
<1> QED  BY <1>1, <1>2, <1>3, <1>4

(***************************************************************************)
(* More than one message about a notice goes out only after a row was      *)
(* reclaimed, a message was out whose recording failed, or one bounced:    *)
(* with any number of workers, channels and promotions (claim, deliver and *)
(* promote).                                                               *)
(***************************************************************************)
THEOREM TellsOnce == Spec => []ToldOnce
<1> DEFINE IInv == /\ \A r \in Rows : r[1] \notin excused => OneAtATime(r)
                   /\ \A n \in Notices : n \notin excused => OneChannel(n)
           Typed == TypeOK /\ Booked
<1>1. ASSUME Init PROVE IInv
  <2>1. /\ \A s \in Senders : job[s] = None
        /\ \A r \in Rows : row[r] \in {Planned, None} /\ sends[r] = 0
    BY <1>1 DEF Init
  <2>2. \A r \in Rows : OneAtATime(r)
    BY <2>1 DEF OneAtATime, Holds, Planned
  <2>3. \A n \in Notices : OneChannel(n)
    <3>1. PICK usable \in [Notices -> (SUBSET Channels) \ {{}}] :
            row = [r \in Rows |->
                     IF /\ r[2] \in usable[r[1]]
                        /\ mode[r[1]] = "first-available" =>
                             \A c \in usable[r[1]] : r[2] <= c
                     THEN Planned ELSE None]
      BY <1>1 DEF Init
    <3>2. \A c \in Channels : c \in Int
      BY DEF Channels
    <3>3. ASSUME NEW n \in Notices, NEW c \in Channels, row[<<n, c>>] # None
          PROVE  /\ c \in usable[n]
                 /\ mode[n] = "first-available" => \A d \in usable[n] : c <= d
      <4>1. <<n, c>> \in Rows
        BY DEF Rows
      <4> QED  BY <3>1, <3>3, <4>1
    <3>4. ASSUME NEW n \in Notices, mode[n] = "first-available",
                 NEW c \in Channels, NEW d \in Channels, c < d,
                 row[<<n, c>>] # None, row[<<n, d>>] # None
          PROVE  FALSE
      <4>1. d <= c
        BY <3>3, <3>4
      <4> QED  BY <3>2, <3>4, <4>1
    <3> QED  BY <3>4 DEF OneChannel
  <2> QED  BY <2>2, <2>3
<1>2. ASSUME IInv, Typed, [Next]_vars PROVE IInv'
  <2>1. (\E s \in Senders : Kinds(s)) \/ Receipts \/ UNCHANGED vars
    BY <1>2, StepsStayTyped
  <2>2. ASSUME NEW r \in Rows, r[1] \notin excused'
        PROVE  r[1] \notin excused /\ OneAtATime(r)'
    <3>1. r[1] \notin excused
      BY <1>2, <2>1, <2>2, MessagesGrow
    <3> QED  BY <1>2, <2>2, <3>1, TellingOnceStays
  <2>3. ASSUME NEW n \in Notices, n \notin excused'
        PROVE  OneChannel(n)'
    <3>1. \A c \in Channels : <<n, c>> \in Rows /\ <<n, c>>[1] = n
      BY DEF Rows
    <3>2. n \notin excused
      <4>1. PICK c \in Channels : TRUE
        BY LastChannelAssumption DEF Channels
      <4> QED  BY <2>2, <2>3, <3>1, <4>1
    <3>3. \A c \in Channels : OneAtATime(<<n, c>>)
      BY <1>2, <3>1, <3>2
    <3> QED  BY <1>2, <2>1, <3>2, <3>3, OneChannelStays
  <2> QED  BY <2>2, <2>3
<1>3. ASSUME IInv, Typed PROVE ToldOnce
  <2> SUFFICES ASSUME NEW n \in Notices \ excused
               PROVE  /\ \A c \in Channels : sends[<<n, c>>] <= 1
                      /\ mode[n] = "first-available" =>
                           Cardinality({c \in Channels : sends[<<n, c>>] > 0}) <= 1
    BY DEF ToldOnce
  <2>1. \A c \in Channels : /\ <<n, c>> \in Rows /\ <<n, c>>[1] = n
                            /\ sends[<<n, c>>] \in Nat /\ c \in Int
    BY <1>3 DEF Rows, TypeOK, Channels
  <2>2. ASSUME NEW c \in Channels, sends[<<n, c>>] > 0
        PROVE  /\ row[<<n, c>>] # None /\ row[<<n, c>>].status # "SUPPRESSED"
               /\ sends[<<n, c>>] = 1
    <3>1. row[<<n, c>>] # None
      BY <1>3, <2>1, <2>2 DEF Booked
    <3>2. OneAtATime(<<n, c>>)
      BY <1>3, <2>1
    <3> QED  BY <2>2, <3>1, <3>2 DEF OneAtATime
  <2>3. \A c \in Channels : sends[<<n, c>>] <= 1
    BY <2>1, <2>2
  <2>4. ASSUME mode[n] = "first-available"
        PROVE  Cardinality({c \in Channels : sends[<<n, c>>] > 0}) <= 1
    <3> DEFINE told == {c \in Channels : sends[<<n, c>>] > 0}
    <3>1. ASSUME NEW c \in told, NEW d \in told, c < d
          PROVE  FALSE
      BY <1>3, <2>2, <2>4, <3>1 DEF OneChannel
    <3>2. \A c, d \in told : c = d
      BY <2>1, <3>1
    <3> HIDE DEF told
    <3>3. ASSUME told = {}
          PROVE  Cardinality(told) <= 1
      <4>1. Cardinality(told) = 0
        BY <3>3, FS_EmptySet
      <4> QED  BY <4>1
    <3>4. ASSUME NEW c \in told
          PROVE  Cardinality(told) <= 1
      <4>1. told = {c}
        BY <3>2
      <4>2. Cardinality(told) = 1
        BY <4>1, FS_Singleton
      <4> QED  BY <4>2
    <3>5. Cardinality(told) <= 1
      BY <3>3, <3>4
    <3> QED  BY <3>5 DEF told
  <2> QED  BY <2>3, <2>4
<1> QED  BY <1>1, <1>2, <1>3, TypeCorrect, PTL DEF Spec


----------------------------------------------------------------------------
(* What becomes of a notice.  The rows of a first-available one go up the  *)
(* channels: behind every suppressed row there is the next, so the highest *)
(* row is not suppressed unless it is the last.                            *)

LEMMA LowestChannel ==
  ASSUME NEW S, S \subseteq Channels, S # {}
  PROVE  \E c \in S : \A d \in S : c <= d
<1> DEFINE R == OpToRel(<, Nat)
<1>1. \A x, y \in Nat : <<y, x>> \in R <=> y < x
  BY DEF OpToRel
<1>2. S \subseteq Nat
  BY DEF Channels
<1>3. IsWellFoundedOn(R, Nat)
  BY NatLessThanWellFounded
<1> HIDE DEF R
<1>4. PICK c \in S : \A d \in S : ~(<<d, c>> \in R)
  BY <1>2, <1>3, WFMin
<1>5. ASSUME NEW d \in S PROVE c <= d
  <2>1. c \in Nat /\ d \in Nat
    BY <1>2
  <2>2. ~(d < c)
    BY <1>1, <1>4, <2>1
  <2> QED  BY <2>1, <2>2
<1> QED  BY <1>5

\* The channels that a notice has left are what is under a highest one.
LEMMA HighestChannel ==
  ASSUME NEW S, S \subseteq Channels, S # {}
  PROVE  \E c \in S : c + 1 \notin S
<1> DEFINE Over(c) == LastChannel + 1 - c
           T == {Over(c) : c \in S}
<1>1. /\ LastChannel \in Nat
      /\ \A c \in S : c \in Nat /\ 1 <= c /\ c <= LastChannel
  BY LastChannelAssumption DEF Channels
<1>2. T \subseteq Channels /\ T # {}
  <2>1. \A c \in S : Over(c) \in 1 .. LastChannel
    BY <1>1
  <2> QED  BY <2>1 DEF Channels
<1>3. PICK t \in T : \A u \in T : t <= u
  <2> HIDE DEF T
  <2> QED  BY <1>2, LowestChannel
<1>4. PICK c \in S : t = Over(c)
  BY <1>3
<1>5. ASSUME c + 1 \in S PROVE FALSE
  <2>1. Over(c) <= Over(c + 1)
    BY <1>3, <1>4, <1>5
  <2> QED  BY <1>1, <2>1
<1> QED  BY <1>5

\* A row that is sent or delivered has a message out.
Out(r) == row[r] # None /\ row[r].status \in {"SENT", "DELIVERED"} => sends[r] > 0

\* A first-available notice has a row, and after each suppressed one the next.
Climbs(n) ==
  mode[n] = "first-available" =>
    /\ \E c \in Channels : row[<<n, c>>] # None
    /\ \A c \in Channels :
         c < LastChannel /\ row[<<n, c>>] # None /\ row[<<n, c>>].status = "SUPPRESSED"
           => row[<<n, c + 1>>] # None

LEMMA OutStays ==
  ASSUME TypeOK, Booked, TypeOK', Truth,
         (\E s \in Senders : Kinds(s)) \/ Receipts \/ UNCHANGED vars,
         NEW r \in Rows, Out(r)
  PROVE  Out(r)'
<1> SUFFICES ASSUME row'[r] # None, row'[r].status \in {"SENT", "DELIVERED"}
             PROVE  sends'[r] > 0
  BY DEF Out
<1>1. sends[r] \in Nat /\ sends'[r] \in Nat /\ sends[r] <= sends'[r]
  BY MessagesGrow DEF TypeOK
<1>2. CASE row[r] # None /\ row'[r].status = row[r].status
  BY <1>1, <1>2 DEF Out
<1>3. ASSUME NEW s \in Senders, RecordSent(s), job[s].row = r
      PROVE  sends[r] > 0
  <2>1. job[s] # None /\ job[s].at = "sent"
    BY <1>3 DEF RecordSent, At
  <2> QED  BY <1>3, <2>1 DEF Truth, Recorded
<1>4. ASSUME NEW m \in 1 .. sends[r]
      PROVE  sends[r] > 0
  BY <1>1
<1> QED  BY <1>1, <1>2, <1>3, <1>4, StatusChanges

\* Rows stay, and a status becomes SUPPRESSED by a suppression alone.
LEMMA RowsStay ==
  ASSUME TypeOK, Booked,
         (\E s \in Senders : Kinds(s)) \/ Receipts \/ UNCHANGED vars,
         NEW r \in Rows, row[r] # None
  PROVE  /\ row'[r] # None
         /\ row'[r].status = "SUPPRESSED" =>
              row[r].status = "SUPPRESSED" \/ \E s \in Senders : Suppress(s) /\ job[s].row = r
<1> DEFINE Keeps == row'[r] # None
           Ends == row'[r].status = "SUPPRESSED" => row[r].status = "SUPPRESSED"
<1>1. CASE row'[r] = row[r]
  BY <1>1
<1>2. ASSUME NEW q \in Rows, row'[q] # None, row'[q].status # "SUPPRESSED",
             \A p \in Rows \ {q} : row'[p] = row[p]
      PROVE  Keeps /\ Ends
  <2>1. CASE q = r
    BY <1>2, <2>1
  <2>2. CASE q # r
    <3>1. row'[r] = row[r]
      BY <1>2, <2>2
    <3> QED  BY <3>1
  <2> QED  BY <2>1, <2>2
<1> HIDE DEF Keeps, Ends
<1>3. ASSUME NEW q \in Rows, NEW m \in 1 .. sends[q], Delivered(q, m) \/ Bounced(q, m)
      PROVE  row'[r] = row[r] \/ (Keeps /\ Ends)
  <2>1. \/ row' = row
        \/ /\ row'[q] # None /\ row'[q].status \in {"DELIVERED", "PENDING"}
           /\ \A p \in Rows \ {q} : row'[p] = row[p]
    <3>1. CASE Delivered(q, m)
      BY <3>1, DeliveredEffects
    <3>2. CASE Bounced(q, m)
      BY <3>2, BouncedEffects
    <3> QED  BY <1>3, <3>1, <3>2
  <2> QED  BY <1>2, <2>1
<1>4. ASSUME NEW s \in Senders, LetsGo(s) \/ Fails(s) \/ Send(s)
      PROVE  row'[r] = row[r]
  BY <1>4, SendEffects DEF LetsGo, Fails
<1>5. ASSUME NEW s \in Senders, Takes(s)
      PROVE  Keeps /\ Ends
  <2>1. PICK q \in Rows, status \in Open : Claim(s, q, status) /\ row[q].status = status
    BY <1>5 DEF Takes
  <2>2. /\ row'[q] # None /\ row'[q].status = "PROCESSING"
        /\ \A p \in Rows \ {q} : row'[p] = row[p]
    BY <2>1, ClaimTakes
  <2> QED  BY <1>2, <2>2
<1>6. ASSUME NEW s \in Senders, RecordSent(s) \/ WriteFailure(s)
      PROVE  Keeps /\ Ends
  <2>1. /\ job[s].row \in Rows /\ row'[job[s].row] # None
        /\ row'[job[s].row].status \in {"SENT", "PENDING", "FAILED"}
        /\ \A p \in Rows \ {job[s].row} : row'[p] = row[p]
    <3>1. CASE RecordSent(s)
      BY <3>1, RecordSentEffects
    <3>2. CASE WriteFailure(s)
      BY <3>2, WriteFailureEffects
    <3> QED  BY <1>6, <3>1, <3>2
  <2> QED  BY <1>2, <2>1
<1>7. ASSUME NEW s \in Senders, Suppress(s)
      PROVE  row'[r] = row[r] \/ (Keeps /\ job[s].row = r)
  <2>1. CASE job[s].row = r
    BY <1>7, <2>1, SuppressEffects DEF Keeps
  <2>2. CASE job[s].row # r
    <3>1. \/ row'[r] = row[r]
          \/ row[r] = None
      BY <1>7, <2>2, SuppressEffects
    <3> QED  BY <3>1
  <2> QED  BY <2>1, <2>2
<1>8. UNCHANGED vars => row' = row
  BY DEF vars
<1>9. \/ row'[r] = row[r]
      \/ Keeps /\ Ends
      \/ \E s \in Senders : Suppress(s) /\ Keeps /\ job[s].row = r
  <2>1. CASE Receipts
    BY <1>3, <2>1 DEF Receipts
  <2>2. ASSUME NEW s \in Senders, Kinds(s)
        PROVE  \/ row'[r] = row[r]
               \/ Keeps /\ Ends
               \/ Suppress(s) /\ Keeps /\ job[s].row = r
    BY <1>4, <1>5, <1>6, <1>7, <2>2 DEF Kinds
  <2> QED  BY <1>8, <2>1, <2>2
<1> QED  BY <1>1, <1>9 DEF Keeps, Ends

\* A suppression below the last channel of a first-available notice leaves a row on the
\* next: promote(), or the one that is there.
LEMMA SuppressionPromotes ==
  ASSUME TypeOK, Booked, NEW s \in Senders, Suppress(s), NEW n \in Notices,
         mode[n] = "first-available", NEW c \in Channels, c < LastChannel,
         job[s].row = <<n, c>>
  PROVE  row'[<<n, c + 1>>] # None
<1>1. /\ LastChannel \in Nat /\ c \in Nat /\ c + 1 \in Channels /\ c # c + 1
      /\ <<n, c + 1>> \in Rows /\ <<n, c + 1>> # <<n, c>>
  BY LastChannelAssumption DEF Channels, Rows
<1>2. row' = [q \in Rows |->
                IF q = <<n, c>> THEN [row[<<n, c>>] EXCEPT !.status = "SUPPRESSED",
                                                           !.dated = FALSE]
                ELSE IF /\ mode[n] = "first-available" /\ c < LastChannel
                        /\ q = <<n, c + 1>> /\ row[q] = None
                     THEN Planned ELSE row[q]]
  BY DEF Suppress
<1>3. row'[<<n, c + 1>>] = IF row[<<n, c + 1>>] = None THEN Planned
                           ELSE row[<<n, c + 1>>]
  BY <1>1, <1>2
<1>4. Planned # None
  <2>1. Planned \in Row
    BY DEF Planned, Row, Status, NoMessage
  <2> QED  BY <2>1, NoneAssumption
<1> QED  BY <1>3, <1>4

LEMMA ClimbStays ==
  ASSUME TypeOK, Booked,
         (\E s \in Senders : Kinds(s)) \/ Receipts \/ UNCHANGED vars,
         NEW n \in Notices, Climbs(n)
  PROVE  Climbs(n)'
<1>1. \A c \in Channels : <<n, c>> \in Rows
  BY DEF Rows
<1>2. 1 \in Channels /\ \A c \in Channels : c < LastChannel => c + 1 \in Channels
  BY LastChannelAssumption DEF Channels
<1>3. mode' = mode
  BY <1>1, <1>2, MessagesGrow
<1> SUFFICES ASSUME mode[n] = "first-available"
             PROVE  /\ \E c \in Channels : row'[<<n, c>>] # None
                    /\ \A c \in Channels :
                         /\ c < LastChannel /\ row'[<<n, c>>] # None
                         /\ row'[<<n, c>>].status = "SUPPRESSED"
                         => row'[<<n, c + 1>>] # None
  BY <1>3 DEF Climbs
<1>4. \E c \in Channels : row'[<<n, c>>] # None
  <2>1. PICK c \in Channels : row[<<n, c>>] # None
    BY DEF Climbs
  <2> QED  BY <1>1, <2>1, RowsStay
<1>5. ASSUME NEW c \in Channels, c < LastChannel, row'[<<n, c>>] # None,
             row'[<<n, c>>].status = "SUPPRESSED"
      PROVE  row'[<<n, c + 1>>] # None
  <2>1. CASE row[<<n, c>>] # None /\ row[<<n, c>>].status = "SUPPRESSED"
    <3>1. row[<<n, c + 1>>] # None
      BY <1>5, <2>1 DEF Climbs
    <3> QED  BY <1>1, <1>2, <1>5, <3>1, RowsStay
  <2>2. CASE row[<<n, c>>] # None /\ row[<<n, c>>].status # "SUPPRESSED"
    <3>1. PICK s \in Senders : Suppress(s) /\ job[s].row = <<n, c>>
      BY <1>1, <1>5, <2>2, RowsStay
    <3> QED  BY <1>5, <3>1, SuppressionPromotes
  <2>3. CASE row[<<n, c>>] = None
    <3>1. PICK s \in Senders : Suppress(s) /\ job[s].row[1] = n /\ c = job[s].row[2] + 1
      BY <1>1, <1>5, <2>3, NewRowsArePromoted
    <3>2. row[job[s].row] # None /\ <<n, c>> # job[s].row
      BY <2>3, <3>1, SuppressEffects
    <3>3. row'[<<n, c>>] = row[<<n, c>>] \/ row'[<<n, c>>] = Planned
      BY <1>1, <3>1, <3>2, SuppressEffects
    <3> QED  BY <1>5, <2>3, <3>3 DEF Planned
  <2> QED  BY <2>1, <2>2, <2>3
<1> QED  BY <1>4, <1>5

(***************************************************************************)
(* NothingIsStranded, the safety part of EveryNoticeSettles: a notice that *)
(* is not settled has a PENDING or PROCESSING row with a date, which is    *)
(* what a pass looks for.  A chain of promotions never ends at a row that  *)
(* is suppressed with channels left (deliver and promote).                 *)
(***************************************************************************)
THEOREM NothingStaysStranded == Spec => []NothingIsStranded
<1> DEFINE IInv == /\ Truth
                   /\ \A r \in Rows : Out(r)
                   /\ \A n \in Notices : Climbs(n)
           Typed == TypeOK /\ Booked
<1>1. ASSUME Init PROVE IInv
  <2>1. /\ \A s \in Senders : job[s] = None
        /\ \A r \in Rows : row[r] \in {Planned, None}
    BY <1>1 DEF Init
  <2>2. \A r \in Rows : row[r] # None => row[r].status = "PENDING"
    BY <2>1 DEF Planned
  <2>3. Truth /\ \A r \in Rows : Out(r)
    BY <2>1, <2>2 DEF Truth, Recorded, Truthful, Out
  <2>4. ASSUME NEW n \in Notices, mode[n] = "first-available"
        PROVE  \E c \in Channels : row[<<n, c>>] # None
    <3>1. PICK usable \in [Notices -> (SUBSET Channels) \ {{}}] :
            row = [r \in Rows |->
                     IF /\ r[2] \in usable[r[1]]
                        /\ mode[r[1]] = "first-available" =>
                             \A c \in usable[r[1]] : r[2] <= c
                     THEN Planned ELSE None]
      BY <1>1 DEF Init
    <3>2. PICK c \in usable[n] : \A d \in usable[n] : c <= d
      <4>1. usable \in [Notices -> (SUBSET Channels) \ {{}}]
        BY <3>1
      <4>2. usable[n] \subseteq Channels /\ usable[n] # {}
        <5>1. usable[n] \in (SUBSET Channels) \ {{}}
          BY <4>1
        <5> QED  BY <5>1
      <4> QED  BY <4>2, LowestChannel
    <3>3. c \in Channels /\ <<n, c>> \in Rows
      BY <3>1, <3>2 DEF Rows
    <3>4. row[<<n, c>>] = Planned
      BY <3>1, <3>2, <3>3
    <3>5. Planned \in Row
      BY DEF Planned, Row, Status, NoMessage
    <3> QED  BY <3>3, <3>4, <3>5, NoneAssumption
  <2>5. ASSUME NEW n \in Notices PROVE Climbs(n)
    <3>1. \A c \in Channels : <<n, c>> \in Rows
      BY DEF Rows
    <3> QED  BY <2>2, <2>4, <3>1 DEF Climbs
  <2> QED  BY <2>3, <2>5
<1>2. ASSUME IInv, Typed, [Next]_vars PROVE IInv'
  <2>1. /\ TypeOK' /\ Booked'
        /\ (\E s \in Senders : Kinds(s)) \/ Receipts \/ UNCHANGED vars
    BY <1>2, StepsStayTyped
  <2>2. Truth'
    BY <1>2, <2>1, RecordedStays, TruthfulStays DEF Truth
  <2>3. \A r \in Rows : Out(r)'
    BY <1>2, <2>1, OutStays
  <2>4. \A n \in Notices : Climbs(n)'
    BY <1>2, <2>1, ClimbStays
  <2> QED  BY <2>2, <2>3, <2>4
<1>3. ASSUME IInv, Typed PROVE NothingIsStranded
  <2> SUFFICES ASSUME NEW n \in Notices,
                      \A c \in Channels : row[<<n, c>>] # None => ~MayBeDue(<<n, c>>)
               PROVE  Settled(n)
    BY DEF NothingIsStranded
  <2>1. \A c \in Channels : <<n, c>> \in Rows
    BY DEF Rows
  <2>2. \A c \in Channels : row[<<n, c>>] # None => row[<<n, c>>].status \notin Open
    BY <1>3, <2>1 DEF TypeOK, MayBeDue
  <2>3. ASSUME mode[n] = "first-available",
               \A c \in Channels : ~(sends[<<n, c>>] > 0),
               \A c \in Channels :
                 row[<<n, c>>] # None => row[<<n, c>>].status # "FAILED"
        PROVE  row[<<n, LastChannel>>] # None
    <3> DEFINE S == {c \in Channels : row[<<n, c>>] # None}
    <3>1. S # {}
      BY <1>3, <2>3 DEF Climbs
    <3>2. PICK c \in S : c + 1 \notin S
      BY <3>1, HighestChannel
    <3>3. row[<<n, c>>].status \in Status
      BY <1>3, <2>1 DEF TypeOK, Row
    <3>4. row[<<n, c>>].status \notin {"SENT", "DELIVERED"}
      BY <1>3, <2>1, <2>3 DEF Out
    <3>5. row[<<n, c>>].status = "SUPPRESSED"
      BY <2>2, <2>3, <3>3, <3>4 DEF Status, Open
    <3>6. CASE c < LastChannel
      <4>1. row[<<n, c + 1>>] # None
        BY <1>3, <2>3, <3>5, <3>6 DEF Climbs
      <4>2. c + 1 \in Channels
        BY <3>6, LastChannelAssumption DEF Channels
      <4> QED  BY <3>2, <4>1, <4>2
    <3>7. CASE ~(c < LastChannel)
      <4>1. c = LastChannel
        BY <3>7, LastChannelAssumption DEF Channels
      <4> QED  BY <4>1
    <3> QED  BY <3>6, <3>7
  <2> QED  BY <2>2, <2>3 DEF Settled
<1> QED  BY <1>1, <1>2, <1>3, TypeCorrect, PTL DEF Spec
=============================================================================
