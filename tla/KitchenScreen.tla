--------------------------- MODULE KitchenScreen ---------------------------
(***************************************************************************)
(* One kitchen screen (apps/dashboard/src/lib/kds-stream.ts), the snapshot *)
(* it loads (apps/api/src/kds/kds.service.ts) and the event streams of the *)
(* branch on one API instance (kds.controller.ts, realtime.service.ts).    *)
(*                                                                         *)
(* A board is named by the number of changes to the branch's orders that   *)
(* had committed when it was read.  The sequence a snapshot carries is     *)
(* left out: the client compares it and loads again either way.            *)
(*                                                                         *)
(* RealtimeService keeps a Set of listeners per channel; `entry` is the    *)
(* one of this branch.  A caller that makes the entry awaits Redis before  *)
(* it adds itself, to the Set it made and not to the one that may have     *)
(* replaced it, so a Set goes by the stream that made it.                  *)
(***************************************************************************)
EXTENDS Naturals, Sequences, FiniteSets, Bags

CONSTANTS
  Streams,       \* the requests for a stream, in the order they are made
  Mine,          \* those the modelled screen makes; the others' boards are not modelled
  MaxChanges,    \* bound: changes to the branch's orders
  MaxLoads       \* bound: snapshots a screen awaits at once

ASSUME StreamsAssumption == Streams \subseteq Nat \ {0} /\ Mine \subseteq Streams
ASSUME KitchenBoundsAssumption == MaxChanges \in Nat /\ MaxLoads \in Nat \ {0}

Nobody == 0
Unsubscribe == 0
Waits == {"awaiting", "answered"}

VARIABLES
  changes,     \* committed changes to the branch's orders
  published,   \* how many of them the worker has published
  shown,       \* the board on the screen; 0 before the first
  asked,       \* snapshots under way that the API has not read yet
  answers,     \* boards read and not yet back at the screen, a bag
  source,      \* the screen's EventSource
  at,          \* where the handler of each stream is
  closed,      \* how often each request has reported its end: error, close
  entry,       \* the listeners of the channel, or none
  commands,    \* sent to Redis over the one connection: who subscribes, or Unsubscribe
  subscribed,  \* Redis delivers the channel to this instance
  overlapped   \* history variable: streams that awaited Redis while another left

screenVars == <<shown, asked, answers, source>>
streamVars == <<at, closed, entry, commands, subscribed, overlapped>>
kitchenVars == <<changes, published, screenVars, streamVars>>

NoEntry == [set |-> Nobody, listeners |-> {}]

KitchenInit ==
  /\ changes = 0
  /\ published = 0
  /\ shown = 0
  /\ asked = 1                  \* the screen loads and connects as it opens
  /\ answers = EmptyBag
  /\ source = Nobody
  /\ at = [s \in Streams |-> "none"]
  /\ closed = [s \in Streams |-> 0]
  /\ entry = NoEntry
  /\ commands = <<>>
  /\ subscribed = FALSE
  /\ overlapped = {}

----------------------------------------------------------------------------
(* Orders change, and the worker publishes each change afterwards.         *)

MayLoad == asked + BagCardinality(answers) < MaxLoads

Change ==
  /\ changes < MaxChanges
  /\ changes' = changes + 1
  /\ UNCHANGED <<published, screenVars, streamVars>>

\* The 'message' handler calls every listener, each of which writes to its
\* stream; the screen loads a snapshot, whatever the event's sequence is.
PublishChange ==
  /\ published < changes
  /\ published' = published + 1
  /\ IF subscribed /\ source # Nobody /\ source \in entry.listeners
     THEN MayLoad /\ asked' = asked + 1
     ELSE UNCHANGED asked
  /\ UNCHANGED <<changes, shown, answers, source, streamVars>>

----------------------------------------------------------------------------
(* loadSnapshot.  Loads overlap, and their answers come in any order.      *)

\* KdsService.snapshot: the orders as they are now.
Snapshot ==
  /\ asked > 0
  /\ asked' = asked - 1
  /\ answers' = answers (+) SetToBag({changes + 1})
  /\ UNCHANGED <<changes, published, shown, source, streamVars>>

\* The answer replaces the board, also one that was read later.
Show(board) ==
  /\ BagIn(board, answers)
  /\ answers' = answers (-) SetToBag({board})
  /\ shown' = board
  /\ UNCHANGED <<changes, published, asked, source, streamVars>>

LoadFails ==
  /\ asked > 0
  /\ asked' = asked - 1
  /\ UNCHANGED <<changes, published, shown, answers, source, streamVars>>

\* Mutant: the poll rests while a stream looks open.
ReconcileIfDown ==
  /\ source = Nobody
  /\ MayLoad
  /\ asked' = asked + 1
  /\ UNCHANGED <<changes, published, shown, answers, source, streamVars>>

\* The timer of the reconciliation poll.
Reconcile ==
  /\ MayLoad
  /\ asked' = asked + 1
  /\ UNCHANGED <<changes, published, shown, answers, source, streamVars>>

----------------------------------------------------------------------------
(* Streams.                                                                *)

\* connect(): a ticket is issued, and the EventSource opened with it.
Connect(s) ==
  /\ at[s] = "none"
  /\ \A t \in Streams : t < s => at[t] # "none"
  /\ s \in Mine => source = Nobody
  /\ source' = IF s \in Mine THEN s ELSE source
  /\ at' = [at EXCEPT ![s] = "redeeming"]
  /\ UNCHANGED <<changes, published, shown, asked, answers, closed, entry,
                 commands, subscribed, overlapped>>

\* redeem(): the ticket is too old, so the answer is 401 and the screen will
\* connect again.
Refused(s) ==
  /\ at[s] = "redeeming"
  /\ at' = [at EXCEPT ![s] = "over"]
  /\ source' = IF source = s THEN Nobody ELSE source
  /\ UNCHANGED <<changes, published, shown, asked, answers, closed, entry,
                 commands, subscribed, overlapped>>

\* RealtimeService.subscribe up to its await.  The first caller makes the Set
\* and awaits Redis; a later one joins the Set as it is.
Subscribe(s) ==
  IF entry = NoEntry
  THEN /\ entry' = [set |-> s, listeners |-> {}]
       /\ commands' = Append(commands, s)
       /\ at' = [at EXCEPT ![s] = "awaiting"]
  ELSE /\ entry' = [entry EXCEPT !.listeners = @ \union {s}]
       /\ at' = [at EXCEPT ![s] = "live"]
       /\ UNCHANGED commands

\* stream(): the ticket is good.  'connected' is sent before the subscription
\* exists, and the screen loads a snapshot when it comes.
Accepted(s) ==
  /\ at[s] = "redeeming"
  /\ IF source = s THEN MayLoad /\ asked' = asked + 1 ELSE UNCHANGED asked
  /\ Subscribe(s)
  /\ UNCHANGED <<changes, published, shown, answers, source, closed, subscribed,
                 overlapped>>

\* Redis takes the commands of the connection in order.
Obey ==
  /\ commands # <<>>
  /\ subscribed' = (Head(commands) # Unsubscribe)
  /\ at' = IF Head(commands) = Unsubscribe THEN at
           ELSE [at EXCEPT ![Head(commands)] = "answered"]
  /\ commands' = Tail(commands)
  /\ UNCHANGED <<changes, published, screenVars, closed, entry, overlapped>>

\* The await is over: the listener joins the Set that was made for it, which is
\* no longer the channel's if it was emptied in the meantime.
Join(s) ==
  /\ at[s] = "answered"
  /\ at' = [at EXCEPT ![s] = "live"]
  /\ entry' = IF entry.set = s
              THEN [entry EXCEPT !.listeners = @ \union {s}] ELSE entry
  /\ UNCHANGED <<changes, published, screenVars, closed, commands,
                 subscribed, overlapped>>

\* Mutant: the last one to leave forgets to drop the channel's entry.
LeaveEntry(s) ==
  LET rest == entry.listeners \ {s} IN
  /\ entry' = IF entry = NoEntry THEN entry ELSE [entry EXCEPT !.listeners = rest]
  /\ commands' = IF entry # NoEntry /\ rest = {}
                 THEN Append(commands, Unsubscribe) ELSE commands

\* The function subscribe() returned.  It looks up the Set the channel has now.
Leave(s) ==
  LET rest == entry.listeners \ {s} IN
  IF entry = NoEntry
  THEN UNCHANGED <<entry, commands>>
  ELSE IF rest = {}
  THEN entry' = NoEntry /\ commands' = Append(commands, Unsubscribe)
  ELSE entry' = [entry EXCEPT !.listeners = rest] /\ UNCHANGED commands

\* The screen's connection breaks, and onerror closes it.
BreakUp ==
  /\ source # Nobody
  /\ source' = Nobody
  /\ UNCHANGED <<changes, published, shown, asked, answers, streamVars>>

\* The server sees a stream end, by 'error' and then 'close' or by 'close'
\* alone.  Nobody hears of it before stream() has installed its cleanup.
Ended(s) ==
  /\ at[s] \in {"redeeming", "awaiting", "answered", "live"}
  /\ source # s
  /\ closed[s] < 2
  /\ closed' = [closed EXCEPT ![s] = @ + 1]
  /\ IF at[s] = "live"
     THEN /\ Leave(s)
          /\ overlapped' = overlapped \union {t \in Streams : at[t] \in Waits}
     ELSE UNCHANGED <<entry, commands, overlapped>>
  /\ UNCHANGED <<changes, published, screenVars, at, subscribed>>

Loading == Snapshot \/ \E board \in 1 .. MaxChanges + 1 : Show(board)

Streaming(s) == Connect(s) \/ Refused(s) \/ Accepted(s) \/ Join(s) \/ Ended(s)

KitchenNext ==
  \/ Change \/ PublishChange
  \/ Loading \/ LoadFails \/ Reconcile
  \/ Obey \/ BreakUp
  \/ \E s \in Streams : Streaming(s)

(* The poll is an interval timer, a snapshot does not fail for ever, and one *)
(* that was read reaches the screen.  Nothing is owed by the streams.        *)
KitchenFairness ==
  /\ WF_kitchenVars(Reconcile)
  /\ SF_kitchenVars(Snapshot)
  /\ \A board \in 1 .. MaxChanges + 1 : WF_kitchenVars(Show(board))

----------------------------------------------------------------------------
\* Type correctness: listeners are streams that were set up.
KitchenTypeOK ==
  /\ changes \in 0 .. MaxChanges
  /\ published \in 0 .. changes
  /\ shown \in 0 .. changes + 1
  /\ asked + BagCardinality(answers) \in 0 .. MaxLoads
  /\ BagToSet(answers) \subseteq 1 .. changes + 1
  /\ source \in Mine \union {Nobody}
  /\ at \in [Streams -> {"none", "redeeming", "awaiting", "answered", "live", "over"}]
  /\ closed \in [Streams -> 0 .. 2]
  /\ entry.listeners \subseteq {s \in Streams : at[s] = "live"}
  /\ subscribed \in BOOLEAN

(***************************************************************************)
(* "The last listener leaving releases the Redis subscription": once Redis *)
(* has taken what was sent, the instance is subscribed exactly while the   *)
(* channel has an entry, however requests for a stream come and go.  And a *)
(* stream that is open is among the listeners, unless another left while   *)
(* it awaited Redis: then it is in a Set nobody reads.                     *)
(***************************************************************************)
StreamsAreHeard ==
  /\ commands = <<>> => (subscribed <=> entry # NoEntry)
  /\ \A s \in Streams : at[s] = "live" /\ closed[s] = 0 =>
       s \in entry.listeners \union overlapped

(***************************************************************************)
(* "Reconcile on a slow timer regardless, so even a stream that is broken  *)
(* in a way nobody anticipated cannot leave the screen stale for long":    *)
(* when the orders rest, the screen ends up with the board as it is, past  *)
(* loads that failed and old answers that were still on their way.         *)
(***************************************************************************)
ScreensCatchUp == <>[](shown = changes + 1)

\* The board is as the orders are, and no older answer is on its way.
UpToDate == shown = changes + 1 /\ BagToSet(answers) \subseteq {changes + 1}

(***************************************************************************)
(* The safety half of it: once the board is as it is, only a change to the *)
(* orders makes it stale again.  Streams that break, loads that fail and   *)
(* polls that overlap do not.                                              *)
(***************************************************************************)
StaysUpToDate == [][changes' = changes /\ UpToDate => UpToDate']_kitchenVars
=============================================================================
