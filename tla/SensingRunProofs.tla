-------------------------- MODULE SensingRunProofs --------------------------
(***************************************************************************)
(* Theorems about SensingRun, for every number of timesteps, capacity of   *)
(* the queues and size of the batches, and every set of faults without the *)
(* interrupt that closes a run under its simulation.                       *)
(*                                                                         *)
(* The invariant follows an item from its publication to the database:     *)
(* what a writer has stored, taken and queued, one after the other, is     *)
(* what it was given, and STOP comes last.  The rest says where the main   *)
(* thread is when the last item has been given to a writer, and what it    *)
(* and the writers have reported then.                                     *)
(***************************************************************************)
EXTENDS SensingRun, FiniteSetTheorems, SequenceTheorems, TLAPS

-----------------------------------------------------------------------------
(* The course of a run.                                                    *)

\* The collector is called in a simulation somebody waits for, or by a replay, and
\* the worker has subscribed by then.
Course ==
  /\ simulation = "running" => main \in Waits
  /\ main \in {"starting", "entering", "replaying"} \cup Waits => bus = "subscribed"
  /\ hook # "none" => simulation = "running" \/ main = "replaying"
  /\ apiState = "deleted" => main \in {"reporting", "returned", "raised"}

\* The main thread after it has put STOP into the queue of the state worker, and
\* into that of the controller writer.
StatesClosing == {"join_states", "clearing", "reporting", "returned", "raised"}
DecisionsClosing ==
  {"join_decisions", "stop_states", "escaped"} \cup StatesClosing

-----------------------------------------------------------------------------
(* The writers.                                                            *)

\* The sequence s is a sequence of the items, in order and once, with at most STOP
\* after the last; and every item is where its number says.
Carries(s, items) ==
  /\ s \in Seq(Nat)
  /\ \A i \in DOMAIN s : s[i] = STOP => i = Len(s)
  /\ {s[i] : i \in DOMAIN s} \ {STOP} = items
  /\ \A i, j \in DOMAIN s : i < j /\ s[j] # STOP => s[i] < s[j]

Numbered(s) == \A i \in DOMAIN s : s[i] \in {i, STOP}

HasStop(s) == \E i \in DOMAIN s : s[i] = STOP

StatesLog == (rows \o batch) \o queue
DecisionsLog == (dRows \o dBatch) \o dQueue

\* The published states that are not in the worker's hands yet, or never will be.
Missing == refused \cup (IF hook = "state" THEN {published} ELSE {})

\* What a close() that stops the worker stores of the bus.
Completion == [last |-> published, errors |-> Cardinality(refused)]

AfterStop == {"storing_last", "finalising", "stopped"}

StatesInv ==
  /\ rows \in Seq(Nat \ {0}) /\ batch \in Seq(Nat \ {0}) /\ queue \in Seq(Nat)
  /\ published \in Nat
  /\ Missing \subseteq 1 .. published
  /\ hook = "state" => published \notin refused
  /\ Carries(StatesLog, (1 .. published) \ Missing)
  /\ refused = {} => Numbered(StatesLog)
  /\ HasStop(queue) \/ thread \in AfterStop =>
       main \in StatesClosing /\ completion = Completion
  /\ main = "join_states" => HasStop(queue) \/ thread \in AfterStop \cup {"failed"}
  /\ thread \in AfterStop => queue = <<>>
  /\ thread \in {"finalising", "stopped"} => batch = <<>>

DecisionsInv ==
  /\ dRows \in Seq(Nat \ {0}) /\ dBatch \in Seq(Nat \ {0}) /\ dQueue \in Seq(Nat)
  /\ snapshots \in Nat
  /\ kind = "control" =>
       /\ Carries(DecisionsLog, 1 .. snapshots) /\ Numbered(DecisionsLog)
       /\ hook # "none" => published = snapshots + 1
       /\ published = snapshots \/ callbackErrors \/ hook # "none"
  /\ kind # "control" => dThread = "none" /\ hook # "decision"
  /\ HasStop(dQueue) \/ dThread \in AfterStop => main \in DecisionsClosing
  /\ dThread \in AfterStop => dQueue = <<>>
  /\ dThread = "stopped" => dBatch = <<>>

-----------------------------------------------------------------------------
(* The reports.                                                            *)

Started == thread # "none" /\ (kind = "control" => dThread # "none")

Whereabouts ==
  /\ kind \in {"sensing", "control", "replay"}
  /\ main \in {"starting", "stop_decisions", "join_decisions"} => kind = "control"
  /\ main = "replaying" => kind = "replay"
  /\ kind = "replay" =>
       main \in {"idle", "replaying", "stop_states"} \cup (StatesClosing \ {"clearing"})
  /\ thread = "none" => row = None
  /\ main = "starting" => thread # "none"
  /\ main = "entering" \/ main \in Waits \/ simulation # "none" => Started
  /\ exitCode # None => simulation # "none"
  /\ exitCode = 0 => simulation = "ok"
  /\ main \in {"idle", "starting", "entering"} => exitCode = None
  /\ kind = "control" /\ main \in {"stop_states", "join_states"} => dThread = "stopped"

\* Both writers have been stopped.
WritersStopped ==
  /\ thread = "stopped" /\ completion.last = published
  /\ kind = "control" => dThread = "stopped"

\* A run that is closed without an error has stopped them.
ClosedInv ==
  /\ main \in {"clearing", "reporting"} /\ exitCode = 0 /\ ~extensionError => WritersStopped
  /\ runStatus = "PASS" =>
       main \in {"reporting", "returned", "raised"} /\ simulation = "ok" /\ WritersStopped

Faultless == ~Slow /\ ~May("output")

\* The row of the run, whether the worker completed it last or run_live.
RowInv ==
  /\ row # None /\ row.drained => thread = "stopped"
  /\ thread = "stopped" =>
       /\ row # None /\ row.last = published
       /\ row.persisted = Len(rows) /\ row.errors = Cardinality(refused)
  /\ kind = "sensing" /\ Faultless =>
       /\ main \in {"clearing", "reporting", "returned"} /\ row # None =>
            thread \in {"stopped", "failed"}
       /\ main = "returned" =>
            /\ row # None
            /\ row.persisted = Len(rows) /\ row.errors = Cardinality(refused)
            /\ row.status = "COMPLETED" => simulation = "ok"
  /\ kind = "replay" /\ main \in {"reporting", "returned"} => thread = "stopped"

\* What the script prints, and the row of the controller's run.
VerdictInv ==
  /\ verdict # None => main = "returned"
  /\ verdict = "PASS" /\ kind # "control" =>
       published = Steps /\ refused = {} /\ Len(rows) = Steps
  /\ kind = "control" /\ main = "returned" /\ dRow # None =>
       /\ dRow.status = "COMPLETED" => simulation = "ok"
       /\ dRow.decisions = published

ReportsInv == Whereabouts /\ ClosedInv /\ RowInv /\ VerdictInv

SensingInv ==
  /\ faults \in FaultSets
  /\ "interrupt" \notin faults =>
       Course /\ StatesInv /\ DecisionsInv /\ ReportsInv

-----------------------------------------------------------------------------
(* Sequences.                                                              *)

\* What the provers know of sequences.
LEMMA Concatenation ==
  ASSUME NEW r \in Seq(Nat), NEW b \in Seq(Nat)
  PROVE  /\ r \o b \in Seq(Nat)
         /\ Len(r \o b) = Len(r) + Len(b)
         /\ Len(r) \in Nat /\ Len(b) \in Nat
         /\ DOMAIN r = 1 .. Len(r) /\ DOMAIN b = 1 .. Len(b)
         /\ DOMAIN (r \o b) = 1 .. Len(r \o b)
         /\ \A i \in 1 .. Len(r) + Len(b) :
              (r \o b)[i] = IF i <= Len(r) THEN r[i] ELSE b[i - Len(r)]
OBVIOUS

LEMMA LengthZero ==
  ASSUME NEW q \in Seq(Nat), Len(q) = 0
  PROVE  q = <<>>
OBVIOUS

LEMMA NoneLeft ==
  ASSUME NEW q \in Seq(Nat), Len(q) = 1
  PROVE  Tail(q) = <<>>
<1>1. q # <<>>
  <2>1. Len(<<>>) = 0 /\ 0 # 1
    OBVIOUS
  <2> QED
    BY <2>1, Zenon
<1>2. PICK t : t = Tail(q)
  OBVIOUS
<1>3. t \in Seq(Nat) /\ Len(t) = 0
  BY <1>1, <1>2, HeadTailProperties
<1> QED
  BY <1>2, <1>3, LengthZero

\* A sequence that is not empty is its head and its tail.
LEMMA HeadThenTail ==
  ASSUME NEW h \in Seq(Nat), NEW t \in Seq(Nat), NEW q \in Seq(Nat),
         Len(h) = 1, h[1] = q[1], Len(q) = Len(t) + 1,
         \A i \in 1 .. Len(t) : t[i] = q[i + 1]
  PROVE  h \o t = q
<1>1. Len(t) \in Nat /\ Len(q) \in Nat
  BY LenProperties
<1>2. /\ h \o t \in Seq(Nat)
      /\ Len(h \o t) = Len(h) + Len(t)
      /\ \A i \in 1 .. Len(h) + Len(t) :
           (h \o t)[i] = IF i <= Len(h) THEN h[i] ELSE t[i - Len(h)]
  BY Concatenation
<1>3. Len(h) + Len(t) = Len(q)
  BY <1>1
<1>4. ASSUME NEW i \in 1 .. Len(q)
      PROVE  (h \o t)[i] = q[i]
  <2>1. (h \o t)[i] = IF i <= 1 THEN h[i] ELSE t[i - 1]
    BY <1>2, <1>3
  <2>2. CASE i = 1
    BY <2>1, <2>2
  <2>3. CASE i # 1
    <3>1. i - 1 \in 1 .. Len(t) /\ ~(i <= 1) /\ (i - 1) + 1 = i
      BY <1>1, <2>3
    <3>2. t[i - 1] = q[(i - 1) + 1]
      BY <3>1
    <3> QED
      BY <2>1, <3>1, <3>2
  <2> QED
    BY <2>2, <2>3
<1>5. Len(h \o t) = Len(q)
  BY <1>2, <1>3
<1> QED
  BY <1>2, <1>4, <1>5, SeqEqual

\* Taking an item, storing a batch and putting an item do to the whole what they
\* should: nothing, nothing, and adding the item.
LEMMA WholeAfterTake ==
  ASSUME NEW r \in Seq(Nat), NEW b \in Seq(Nat), NEW q \in Seq(Nat), q # <<>>
  PROVE  (r \o Append(b, Head(q))) \o Tail(q) = (r \o b) \o q
<1>1. /\ Head(q) \in Nat /\ Tail(q) \in Seq(Nat) /\ Len(Tail(q)) = Len(q) - 1
      /\ \A i \in 1 .. Len(Tail(q)) : Tail(q)[i] = q[i + 1]
  BY HeadTailProperties
<1>2. Head(q) = q[1] /\ Len(q) \in Nat
  BY LenProperties
<1>3. PICK h \in Seq(Nat) : h = <<Head(q)>>
  <2>1. <<Head(q)>> \in Seq(Nat)
    BY <1>1
  <2> QED
    BY <2>1
<1>4. Len(h) = 1 /\ h[1] = q[1]
  BY <1>2, <1>3
<1>5. Append(b, Head(q)) = b \o h
  BY <1>1, <1>3, AppendIsConcat
<1>6. Len(q) = Len(Tail(q)) + 1
  BY <1>1, <1>2
<1>7. h \o Tail(q) = q
  BY <1>1, <1>4, <1>6, HeadThenTail
<1>8. (r \o (b \o h)) \o Tail(q) = (r \o b) \o (h \o Tail(q))
  <2>1. PICK t : t = Tail(q)
    OBVIOUS
  <2>2. h \in Seq(Nat) /\ t \in Seq(Nat)
    BY <1>1, <1>3, <2>1
  <2>3. (r \o (b \o h)) \o t = (r \o b) \o (h \o t)
    BY <2>2, SMTT(60)
  <2> QED
    BY <2>1, <2>3
<1> QED
  BY <1>5, <1>7, <1>8

LEMMA WholeAfterStore ==
  ASSUME NEW r \in Seq(Nat), NEW b \in Seq(Nat), NEW q \in Seq(Nat)
  PROVE  ((r \o b) \o <<>>) \o q = (r \o b) \o q
<1>1. r \o b \in Seq(Nat)
  BY ConcatProperties
<1> QED
  BY <1>1, ConcatEmptySeq

LEMMA WholeAfterPut ==
  ASSUME NEW w \in Seq(Nat), NEW q \in Seq(Nat), NEW x \in Nat
  PROVE  w \o Append(q, x) = Append(w \o q, x)
<1>1. <<x>> \in Seq(Nat)
  OBVIOUS
<1>2. Append(q, x) = q \o <<x>> /\ Append(w \o q, x) = (w \o q) \o <<x>>
  BY ConcatProperties, AppendIsConcat
<1> QED
  BY <1>1, <1>2, ConcatAssociative

\* What an item adds, and what STOP does.
LEMMA CarriesItem ==
  ASSUME NEW s, NEW items, Carries(s, items), ~HasStop(s),
         NEW x \in Nat, x # STOP, \A y \in items : y < x
  PROVE  Carries(Append(s, x), items \cup {x}) /\ ~HasStop(Append(s, x))
<1> DEFINE t == Append(s, x)
<1>1. /\ s \in Seq(Nat) /\ t \in Seq(Nat) /\ Len(t) = Len(s) + 1 /\ Len(s) \in Nat
      /\ DOMAIN s = 1 .. Len(s) /\ DOMAIN t = 1 .. Len(t)
      /\ \A i \in 1 .. Len(s) : t[i] = s[i]
      /\ t[Len(t)] = x
  BY AppendProperties, LenProperties DEF Carries
<1> HIDE DEF t
<1>2. DOMAIN t = DOMAIN s \cup {Len(t)}
  BY <1>1
<1>3. ~HasStop(t)
  BY <1>1, <1>2 DEF HasStop
<1>4. {t[i] : i \in DOMAIN t} \ {STOP} = items \cup {x}
  <2>1. {t[i] : i \in DOMAIN t} = {s[i] : i \in DOMAIN s} \cup {x}
    BY <1>1, <1>2
  <2>2. {s[i] : i \in DOMAIN s} \ {STOP} = items
    BY DEF Carries
  <2> QED
    BY <2>1, <2>2
<1>5. \A i \in DOMAIN s : s[i] \in items
  BY DEF Carries, HasStop
<1>6. ASSUME NEW i \in DOMAIN t, NEW j \in DOMAIN t, i < j
      PROVE  t[i] < t[j]
  <2>1. CASE j = Len(t)
    BY <1>1, <1>5, <1>6, <2>1
  <2>2. CASE j # Len(t)
    <3>1. i \in DOMAIN s /\ j \in DOMAIN s
      BY <1>1, <1>6, <2>2
    <3> QED
      BY <1>1, <1>6, <3>1 DEF Carries, HasStop
  <2> QED
    BY <2>1, <2>2
<1> QED
  BY <1>1, <1>3, <1>4, <1>6 DEF Carries, HasStop, t

LEMMA CarriesStop ==
  ASSUME NEW s, NEW items, Carries(s, items), ~HasStop(s)
  PROVE  Carries(Append(s, STOP), items)
<1> DEFINE t == Append(s, STOP)
<1>1. STOP \in Nat
  BY DEF STOP
<1>2. /\ s \in Seq(Nat) /\ t \in Seq(Nat) /\ Len(t) = Len(s) + 1 /\ Len(s) \in Nat
      /\ DOMAIN s = 1 .. Len(s) /\ DOMAIN t = 1 .. Len(t)
      /\ \A i \in 1 .. Len(s) : t[i] = s[i]
      /\ t[Len(t)] = STOP
  BY <1>1, AppendProperties, LenProperties DEF Carries
<1> HIDE DEF t
<1>3. DOMAIN t = DOMAIN s \cup {Len(t)}
  BY <1>2
<1>4. {t[i] : i \in DOMAIN t} \ {STOP} = items
  <2>1. {t[i] : i \in DOMAIN t} = {s[i] : i \in DOMAIN s} \cup {STOP}
    BY <1>2, <1>3
  <2>2. {s[i] : i \in DOMAIN s} \ {STOP} = items
    BY DEF Carries
  <2> QED
    BY <2>1, <2>2
<1>5. \A i \in DOMAIN t : t[i] = STOP => i = Len(t)
  BY <1>2, <1>3 DEF HasStop
<1>6. ASSUME NEW i \in DOMAIN t, NEW j \in DOMAIN t, i < j, t[j] # STOP
      PROVE  t[i] < t[j]
  <2>1. i \in DOMAIN s /\ j \in DOMAIN s
    BY <1>2, <1>6
  <2> QED
    BY <1>2, <1>6, <2>1 DEF Carries, HasStop
<1> QED
  BY <1>2, <1>4, <1>5, <1>6 DEF Carries, t

\* Taking STOP from the queue takes the last of it.
LEMMA StopIsLast ==
  ASSUME NEW w \in Seq(Nat), NEW q \in Seq(Nat), NEW items, Carries(w \o q, items),
         q # <<>>, Head(q) = STOP, ~HasStop(w)
  PROVE  /\ Tail(q) = <<>>
         /\ Carries(w, items)
         /\ Numbered(w \o q) => Numbered(w)
<1>1. q[1] = STOP
  OBVIOUS
<1> DEFINE s == w \o q
<1>2. /\ s \in Seq(Nat) /\ Len(s) = Len(w) + Len(q) /\ Len(w) \in Nat /\ Len(q) \in Nat
      /\ DOMAIN s = 1 .. Len(s) /\ DOMAIN w = 1 .. Len(w)
      /\ \A i \in 1 .. Len(w) : s[i] = w[i]
      /\ Len(q) > 0 /\ s[Len(w) + 1] = q[1]
  <2>1. Len(q) > 0
    BY EmptySeq
  <2> QED
    BY <2>1, Concatenation
<1>3. Carries(s, items)
  OBVIOUS
<1> HIDE DEF s
<1>4. Len(w) + 1 = Len(s)
  BY <1>1, <1>2, <1>3 DEF Carries
<1>5. Len(q) = 1
  <2>1. PICK x \in Nat, y \in Nat : x = Len(q) /\ y = Len(w)
    BY <1>2
  <2>2. y + x = y + 1
    BY <1>2, <1>4, <2>1
  <2>3. x = 1
    BY <2>1, <2>2
  <2> QED
    BY <2>1, <2>3
<1>6. Tail(q) = <<>>
  BY <1>5, NoneLeft
<1>7. DOMAIN s = DOMAIN w \cup {Len(s)} /\ s[Len(s)] = STOP
  BY <1>1, <1>2, <1>4
<1>8. Carries(w, items)
  <2>1. {s[i] : i \in DOMAIN s} = {w[i] : i \in DOMAIN w} \cup {STOP}
    <3>1. \A i \in DOMAIN w : s[i] = w[i]
      BY <1>2
    <3> QED
      BY <1>7, <3>1
  <2>2. {w[i] : i \in DOMAIN w} \ {STOP} = items
    BY <1>3, <2>1 DEF Carries
  <2>3. \A i, j \in DOMAIN w : i < j /\ w[j] # STOP => w[i] < w[j]
    BY <1>2, <1>3, <1>7 DEF Carries
  <2> QED
    BY <2>2, <2>3 DEF Carries, HasStop
<1>9. Numbered(s) => Numbered(w)
  BY <1>2, <1>7 DEF Numbered
<1> QED
  BY <1>6, <1>8, <1>9 DEF s

\* Sequences of items have no STOP.
LEMMA Items ==
  ASSUME NEW r \in Seq(Nat \ {0}), NEW b \in Seq(Nat \ {0})
  PROVE  /\ r \in Seq(Nat) /\ b \in Seq(Nat)
         /\ r \o b \in Seq(Nat \ {0}) /\ r \o b \in Seq(Nat)
         /\ ~HasStop(r \o b) /\ ~HasStop(r)
<1>1. /\ r \in Seq(Nat) /\ b \in Seq(Nat)
      /\ r \o b \in Seq(Nat \ {0}) /\ r \o b \in Seq(Nat)
  OBVIOUS
<1>2. \A s \in Seq(Nat \ {0}) : ~HasStop(s)
  <2> SUFFICES ASSUME NEW s \in Seq(Nat \ {0}), NEW i \in DOMAIN s PROVE s[i] # STOP
    BY DEF HasStop
  <2>1. s[i] \in Nat \ {0}
    BY LenProperties
  <2> QED
    BY <2>1 DEF STOP
<1> QED
  BY <1>1, <1>2

LEMMA StopInWhole ==
  ASSUME NEW w \in Seq(Nat), ~HasStop(w), NEW q \in Seq(Nat)
  PROVE  HasStop(w \o q) => HasStop(q)
<1> SUFFICES ASSUME NEW i \in DOMAIN (w \o q), (w \o q)[i] = STOP PROVE HasStop(q)
  BY DEF HasStop
<1>1. i \in 1 .. Len(w) + Len(q) /\ Len(w) \in Nat /\ Len(q) \in Nat
      /\ (w \o q)[i] = IF i <= Len(w) THEN w[i] ELSE q[i - Len(w)]
  BY Concatenation
<1>2. DOMAIN w = 1 .. Len(w) /\ DOMAIN q = 1 .. Len(q)
  BY LenProperties
<1>3. ~(i <= Len(w))
  BY <1>1, <1>2 DEF HasStop
<1>4. i - Len(w) \in DOMAIN q /\ q[i - Len(w)] = STOP
  BY <1>1, <1>2, <1>3
<1> QED
  BY <1>4 DEF HasStop

\* A writer takes an item.
LEMMA ItemTaken ==
  ASSUME NEW r \in Seq(Nat \ {0}), NEW b \in Seq(Nat \ {0}), NEW q \in Seq(Nat),
         q # <<>>, Head(q) # STOP
  PROVE  /\ Append(b, Head(q)) \in Seq(Nat \ {0})
         /\ Tail(q) \in Seq(Nat)
         /\ (r \o Append(b, Head(q))) \o Tail(q) = (r \o b) \o q
         /\ HasStop(q) <=> HasStop(Tail(q))
<1>1. /\ Head(q) \in Nat /\ Tail(q) \in Seq(Nat) /\ Len(Tail(q)) = Len(q) - 1
      /\ \A i \in 1 .. Len(Tail(q)) : Tail(q)[i] = q[i + 1]
  BY HeadTailProperties
<1>2. Append(b, Head(q)) \in Seq(Nat \ {0})
  BY <1>1 DEF STOP
<1>3. (r \o Append(b, Head(q))) \o Tail(q) = (r \o b) \o q
  <2>1. r \in Seq(Nat) /\ b \in Seq(Nat)
    BY Items
  <2> QED
    BY <2>1, WholeAfterTake
<1>4. PICK t : t = Tail(q)
  OBVIOUS
<1>5. /\ t \in Seq(Nat) /\ Len(t) = Len(q) - 1 /\ Len(t) \in Nat /\ Len(q) \in Nat
      /\ DOMAIN t = 1 .. Len(t) /\ DOMAIN q = 1 .. Len(q)
      /\ \A i \in 1 .. Len(t) : t[i] = q[i + 1]
  BY <1>1, <1>4, LenProperties
<1>6. q[1] # STOP
  OBVIOUS
<1>7. ASSUME NEW i \in DOMAIN q, q[i] = STOP
      PROVE  HasStop(t)
  <2>1. i - 1 \in DOMAIN t /\ (i - 1) + 1 = i
    <3>1. i # 1
      BY <1>6, <1>7
    <3>2. i \in 1 .. Len(q) /\ Len(q) \in Nat /\ Len(t) = Len(q) - 1
          /\ DOMAIN t = 1 .. Len(t)
      BY <1>5
    <3> QED
      BY <3>1, <3>2
  <2>2. t[i - 1] = q[(i - 1) + 1]
    BY <1>5, <2>1
  <2> QED
    BY <1>7, <2>1, <2>2 DEF HasStop
<1>8. ASSUME NEW i \in DOMAIN t, t[i] = STOP
      PROVE  HasStop(q)
  <2>1. i \in 1 .. Len(t) /\ Len(t) = Len(q) - 1 /\ Len(q) \in Nat /\ DOMAIN q = 1 .. Len(q)
    BY <1>5, <1>8
  <2>2. i + 1 \in DOMAIN q
    BY <2>1
  <2>3. q[i + 1] = STOP
    BY <1>5, <1>8, <2>1
  <2> QED
    BY <2>2, <2>3 DEF HasStop
<1>9. HasStop(q) <=> HasStop(t)
  BY <1>7, <1>8 DEF HasStop
<1> QED
  BY <1>1, <1>2, <1>3, <1>4, <1>9

\* A writer takes STOP.
LEMMA StopTaken ==
  ASSUME NEW r \in Seq(Nat \ {0}), NEW b \in Seq(Nat \ {0}), NEW q \in Seq(Nat),
         q # <<>>, Head(q) = STOP,
         NEW items, Carries((r \o b) \o q, items)
  PROVE  /\ HasStop(q) /\ Tail(q) = <<>>
         /\ Carries((r \o b) \o Tail(q), items)
         /\ Numbered((r \o b) \o q) => Numbered((r \o b) \o Tail(q))
<1>1. PICK w : w = r \o b
  OBVIOUS
<1>2. w \in Seq(Nat) /\ ~HasStop(w) /\ Carries(w \o q, items)
  BY <1>1, Items
<1>3. /\ Tail(q) = <<>>
      /\ Carries(w, items)
      /\ Numbered(w \o q) => Numbered(w)
  BY <1>2, StopIsLast
<1>4. w \o <<>> = w
  BY <1>2, ConcatEmptySeq
<1>5. HasStop(q)
  <2>1. q[1] = STOP
    OBVIOUS
  <2>2. 1 \in DOMAIN q
    OBVIOUS
  <2> QED
    BY <2>1, <2>2 DEF HasStop
<1> QED
  BY <1>1, <1>3, <1>4, <1>5

\* A writer stores its batch.
LEMMA BatchStored ==
  ASSUME NEW r \in Seq(Nat \ {0}), NEW b \in Seq(Nat \ {0}), NEW q \in Seq(Nat)
  PROVE  /\ r \o b \in Seq(Nat \ {0}) /\ <<>> \in Seq(Nat \ {0})
         /\ ((r \o b) \o <<>>) \o q = (r \o b) \o q
  BY Items, WholeAfterStore, EmptySeq

\* A writer is given an item.
LEMMA ItemPut ==
  ASSUME NEW r \in Seq(Nat \ {0}), NEW b \in Seq(Nat \ {0}), NEW q \in Seq(Nat),
         ~HasStop(q), NEW items, Carries((r \o b) \o q, items),
         NEW x \in Nat \ {0}, \A y \in items : y < x
  PROVE  /\ Append(q, x) \in Seq(Nat)
         /\ ~HasStop(Append(q, x))
         /\ Carries((r \o b) \o Append(q, x), items \cup {x})
         /\ Numbered((r \o b) \o q) /\ items = 1 .. x - 1 =>
              Numbered((r \o b) \o Append(q, x))
<1>1. PICK w : w = r \o b
  OBVIOUS
<1>2. w \in Seq(Nat) /\ ~HasStop(w) /\ Carries(w \o q, items)
  BY <1>1, Items
<1>3. PICK s : s = w \o q
  OBVIOUS
<1>4. ~HasStop(s) /\ Carries(s, items)
  BY <1>2, <1>3, StopInWhole
<1>5. w \o Append(q, x) = Append(s, x)
  BY <1>2, <1>3, WholeAfterPut
<1>6. Carries(Append(s, x), items \cup {x}) /\ ~HasStop(Append(s, x))
  BY <1>4, CarriesItem DEF STOP
<1>7. Append(q, x) \in Seq(Nat)
  OBVIOUS
<1>8. ~HasStop(Append(q, x))
  <2> SUFFICES ASSUME NEW i \in DOMAIN Append(q, x), Append(q, x)[i] = STOP PROVE FALSE
    BY DEF HasStop
  <2>1. /\ Len(Append(q, x)) = Len(q) + 1 /\ Len(q) \in Nat
        /\ DOMAIN q = 1 .. Len(q) /\ DOMAIN Append(q, x) = 1 .. Len(q) + 1
        /\ \A j \in 1 .. Len(q) : Append(q, x)[j] = q[j]
        /\ Append(q, x)[Len(q) + 1] = x
    BY AppendProperties, LenProperties
  <2>2. i \in 1 .. Len(q)
    BY <2>1 DEF STOP
  <2> QED
    BY <2>1, <2>2 DEF HasStop
<1>9. ASSUME Numbered(s), items = 1 .. x - 1
      PROVE  Numbered(Append(s, x))
  <2>1. /\ s \in Seq(Nat) /\ Len(s) \in Nat
        /\ DOMAIN s = 1 .. Len(s)
        /\ Len(Append(s, x)) = Len(s) + 1
        /\ DOMAIN Append(s, x) = 1 .. Len(s) + 1
        /\ \A j \in 1 .. Len(s) : Append(s, x)[j] = s[j]
        /\ Append(s, x)[Len(s) + 1] = x
    BY <1>4, AppendProperties, LenProperties DEF Carries
  <2>2. \A i \in DOMAIN s : s[i] = i
    BY <1>4, <1>9 DEF Numbered, HasStop
  <2>3. {s[i] : i \in DOMAIN s} = items
    <3>1. {s[i] : i \in DOMAIN s} \ {STOP} = items
      BY <1>4 DEF Carries
    <3> QED
      BY <1>4, <3>1 DEF HasStop
  <2>4. 1 .. Len(s) = 1 .. x - 1
    <3>1. {s[i] : i \in DOMAIN s} = DOMAIN s
      BY <2>2
    <3> QED
      BY <1>9, <2>1, <2>3, <3>1
  <2>5. Len(s) + 1 = x
    BY <2>1, <2>4
  <2> QED
    BY <2>1, <2>2, <2>5 DEF Numbered
<1> QED
  BY <1>1, <1>3, <1>5, <1>6, <1>7, <1>8, <1>9

\* A writer is given STOP.
LEMMA StopPut ==
  ASSUME NEW r \in Seq(Nat \ {0}), NEW b \in Seq(Nat \ {0}), NEW q \in Seq(Nat),
         ~HasStop(q), NEW items, Carries((r \o b) \o q, items)
  PROVE  /\ Append(q, STOP) \in Seq(Nat)
         /\ HasStop(Append(q, STOP))
         /\ Carries((r \o b) \o Append(q, STOP), items)
         /\ Numbered((r \o b) \o q) => Numbered((r \o b) \o Append(q, STOP))
<1>0. STOP \in Nat
  BY DEF STOP
<1>1. PICK w : w = r \o b
  OBVIOUS
<1>2. w \in Seq(Nat) /\ ~HasStop(w) /\ Carries(w \o q, items)
  BY <1>1, Items
<1>3. PICK s : s = w \o q
  OBVIOUS
<1>4. ~HasStop(s) /\ Carries(s, items)
  BY <1>2, <1>3, StopInWhole
<1>5. w \o Append(q, STOP) = Append(s, STOP)
  BY <1>0, <1>2, <1>3, WholeAfterPut
<1>6. Carries(Append(s, STOP), items)
  BY <1>4, CarriesStop
<1>7. \A z \in Seq(Nat) :
        /\ Append(z, STOP) \in Seq(Nat) /\ Len(z) \in Nat
        /\ DOMAIN z = 1 .. Len(z) /\ DOMAIN Append(z, STOP) = 1 .. Len(z) + 1
        /\ \A j \in 1 .. Len(z) : Append(z, STOP)[j] = z[j]
        /\ Append(z, STOP)[Len(z) + 1] = STOP
  BY <1>0, AppendProperties, LenProperties
<1>8. Append(q, STOP) \in Seq(Nat) /\ HasStop(Append(q, STOP))
  <2>1. Len(q) + 1 \in DOMAIN Append(q, STOP)
    BY <1>7
  <2> QED
    BY <1>7, <2>1 DEF HasStop
<1>9. ASSUME Numbered(s)
      PROVE  Numbered(Append(s, STOP))
  <2>1. s \in Seq(Nat)
    BY <1>4 DEF Carries
  <2> QED
    BY <1>7, <1>9, <2>1 DEF Numbered
<1> QED
  BY <1>1, <1>3, <1>5, <1>6, <1>8, <1>9

-----------------------------------------------------------------------------
(* The course of a run, step by step.                                      *)

LEMMA CourseStep ==
  ASSUME SensingInv, "interrupt" \notin faults, [SensingNext]_sensingVars
  PROVE  Course'
<1> USE DEF Course, Waits, runVars, apiVars, hookVars, fixedVars, resultVars, May
<1>1. Course
  BY DEF SensingInv
<1>2. CASE LoadFails
  BY <1>1, <1>2 DEF LoadFails
<1>3. CASE StartStates
  BY <1>1, <1>3, RunAssumption DEF StartStates, SensingInv, ReportsInv, Whereabouts
<1>4. CASE StartDecisions
  BY <1>1, <1>4 DEF StartDecisions
<1>5. CASE Enter
  BY <1>1, <1>5 DEF Enter
<1>6. CASE Completed
  BY <1>1, <1>6 DEF Completed, Returned
<1>7. CASE TimesOut \/ GraceEnds \/ Cancelled
  BY <1>1, <1>7 DEF TimesOut, GraceEnds, Cancelled, Stops
<1>8. CASE Interrupted
  BY <1>1, <1>8 DEF Interrupted, Returned
<1>9. CASE ReplayLine
  BY <1>1, <1>9 DEF ReplayLine
<1>10. CASE ReplayEnds \/ ReplayFails
  BY <1>1, <1>10 DEF ReplayEnds, ReplayFails
<1>11. CASE CloseSensor
  BY <1>1, <1>11 DEF CloseSensor, CloseFails
<1>12. CASE StopDecisions
  BY <1>1, <1>12 DEF StopDecisions
<1>13. CASE JoinDecisions
  BY <1>1, <1>13 DEF JoinDecisions, CloseFails
<1>14. CASE StopStates
  BY <1>1, <1>14 DEF StopStates, ReplayRaises
<1>15. CASE JoinStates
  BY <1>1, <1>15 DEF JoinStates, ReplayRaises, CloseFails
<1>16. CASE Clear
  BY <1>1, <1>16 DEF Clear
<1>17. CASE Report
  BY <1>1, <1>17 DEF Report, ReportSensing, ReportControl, ReportReplay, Raises, Returns
<1>18. CASE Callback
  BY <1>1, <1>18 DEF Callback
<1>19. CASE EnqueueState \/ EnqueueDecision
  BY <1>1, <1>19 DEF EnqueueState, EnqueueDecision, AfterState
<1>20. CASE SimulationReturns
  BY <1>1, <1>20 DEF SimulationReturns
<1>21. CASE StatesStep \/ DecisionsStep \/ UNCHANGED sensingVars
  BY <1>1, <1>21 DEF StatesStep, DecisionsStep, sensingVars
<1> QED
  BY <1>2, <1>3, <1>4, <1>5, <1>6, <1>7, <1>8, <1>9, <1>10, <1>11, <1>12, <1>13, <1>14,
     <1>15, <1>16, <1>17, <1>18, <1>19, <1>20, <1>21
  DEF SensingNext, MainStep, SimulationStep

-----------------------------------------------------------------------------
(* The writer of the states, step by step.                                 *)

\* The main thread goes on, and nothing happens to a state.
LEMMA StatesFrame ==
  ASSUME StatesInv,
         UNCHANGED <<published, refused, rows, batch, queue, thread, completion>>,
         hook' = hook \/ {hook, hook'} \subseteq {"none", "decision"},
         main \in StatesClosing => main' \in StatesClosing,
         main' = "join_states" => main = "join_states"
  PROVE  StatesInv'
<1>1. Missing' = Missing
  BY DEF Missing
<1>2. StatesLog' = StatesLog /\ Completion' = Completion
  BY DEF StatesLog, Completion
<1> QED
  BY <1>1, <1>2 DEF StatesInv

\* A state is published and waits for the worker's queue, or is refused at once.
LEMMA StatesPublish ==
  ASSUME StatesInv, Publish, hook = "none", bus = "subscribed", main' = main,
         main \notin StatesClosing, UNCHANGED <<rows, batch, queue, thread, completion>>
  PROVE  StatesInv'
<1>1. /\ published \in Nat /\ Missing = refused /\ refused \subseteq 1 .. published
      /\ ~(HasStop(queue) \/ thread \in AfterStop)
  BY DEF StatesInv, Missing
<1>2. /\ published' = published + 1
      /\ \/ refused' = refused \cup {published'} /\ hook' \in {"none", "decision"}
         \/ refused' = refused /\ hook' = "state"
  BY DEF Publish, AfterState
<1>3. Missing' = refused \cup {published + 1}
  BY <1>2 DEF Missing
<1>4. /\ published' \in Nat
      /\ Missing' \subseteq 1 .. published'
      /\ hook' = "state" => published' \notin refused'
  BY <1>1, <1>2, <1>3
<1>5. (1 .. published') \ Missing' = (1 .. published) \ Missing
  BY <1>1, <1>2, <1>3
<1>6. StatesLog' = StatesLog
  BY DEF StatesLog
<1>7. refused' = {} => refused = {}
  BY <1>2
<1> QED
  BY <1>1, <1>4, <1>5, <1>6, <1>7 DEF StatesInv, StatesClosing

LEMMA StatesEnqueue ==
  ASSUME Course, StatesInv, EnqueueState
  PROVE  StatesInv'
<1>1. /\ hook = "state" /\ hook' \in {"none", "decision"} /\ main \notin StatesClosing
      /\ UNCHANGED <<published, main, completion>>
  BY DEF EnqueueState, AfterState, Course, Waits, StatesClosing, reportVars
<1>2. /\ published \in Nat \ {0} /\ refused \subseteq 1 .. published
      /\ Missing = refused \cup {published} /\ published \notin refused
      /\ ~(HasStop(queue) \/ thread \in AfterStop)
  BY <1>1 DEF StatesInv, Missing
<1>3. CASE Put(published) /\ UNCHANGED refused
  <2>1. Missing' = refused
    BY <1>1, <1>3 DEF Missing
  <2>2. (1 .. published') \ Missing' = ((1 .. published) \ Missing) \cup {published}
    BY <1>1, <1>2, <2>1
  <2>3. /\ \A y \in (1 .. published) \ Missing : y < published
        /\ refused = {} => (1 .. published) \ Missing = 1 .. published - 1
    BY <1>2
  <2>4. /\ queue' \in Seq(Nat) /\ ~HasStop(queue')
        /\ Carries(StatesLog', ((1 .. published) \ Missing) \cup {published})
        /\ refused = {} => Numbered(StatesLog')
    BY <1>2, <1>3, <2>3, ItemPut DEF Put, StatesInv, StatesLog
  <2> QED
    BY <1>1, <1>2, <1>3, <2>1, <2>2, <2>4 DEF StatesInv, Put, StatesClosing
<1>4. CASE PutTimesOut(Slow) /\ refused' = refused \cup {published}
  <2>1. Missing' = Missing /\ StatesLog' = StatesLog
    BY <1>1, <1>2, <1>4 DEF Missing, StatesLog, PutTimesOut, writerVars
  <2> QED
    BY <1>1, <1>2, <1>4, <2>1 DEF StatesInv, PutTimesOut, writerVars, StatesClosing
<1> QED
  BY <1>3, <1>4 DEF EnqueueState

LEMMA StatesStop ==
  ASSUME Course, StatesInv, StopStates
  PROVE  StatesInv'
<1>1. /\ hook = "none" /\ main \notin StatesClosing
      /\ ~(HasStop(queue) \/ thread \in AfterStop)
      /\ UNCHANGED <<published, refused, hook>>
  BY DEF StopStates, Course, Waits, StatesClosing, StatesInv, hookVars
<1>2. Missing' = Missing /\ completion' = Completion'
  BY <1>1 DEF Missing, Completion, StopStates
<1>3. CASE Put(STOP) /\ main' = "join_states"
  <2>1. /\ queue' \in Seq(Nat) /\ HasStop(queue')
        /\ Carries(StatesLog', (1 .. published) \ Missing)
        /\ Numbered(StatesLog) => Numbered(StatesLog')
    BY <1>1, <1>3, StopPut DEF Put, StatesInv, StatesLog
  <2> QED
    BY <1>1, <1>2, <1>3, <2>1 DEF StatesInv, Put, StatesClosing
<1>4. CASE PutTimesOut(Slow) /\ main' # "join_states"
  <2>1. StatesLog' = StatesLog
    BY <1>4 DEF StatesLog, PutTimesOut, writerVars
  <2> QED
    BY <1>1, <1>2, <1>4, <2>1 DEF StatesInv, PutTimesOut, writerVars
<1> QED
  BY <1>3, <1>4 DEF StopStates, ReplayRaises

LEMMA StatesWrite ==
  ASSUME StatesInv, StatesStep
  PROVE  StatesInv'
<1>1. UNCHANGED <<published, refused, hook, main, completion>>
  BY DEF StatesStep, hookVars
<1>2. Missing' = Missing /\ Completion' = Completion
  BY <1>1 DEF Missing, Completion
<1>3. CASE Take /\ Head(queue) = STOP
  <2>1. queue # <<>> /\ rows' = rows /\ batch' = batch /\ queue' = Tail(queue)
        /\ thread' = "storing_last"
    BY <1>3 DEF Take, TakeItem
  <2>2. /\ HasStop(queue) /\ queue' = <<>>
        /\ Carries(StatesLog', (1 .. published) \ Missing)
        /\ Numbered(StatesLog) => Numbered(StatesLog')
    BY <1>3, <2>1, StopTaken DEF StatesInv, StatesLog
  <2>3. queue' \in Seq(Nat)
    BY <2>2
  <2> QED
    BY <1>1, <1>2, <2>1, <2>2, <2>3 DEF StatesInv, AfterStop
<1>4. CASE Take /\ Head(queue) # STOP
  <2>1. /\ queue # <<>> /\ rows' = rows /\ batch' = Append(batch, Head(queue))
        /\ queue' = Tail(queue)
        /\ thread = "taking" /\ thread' \in {"taking", "storing"}
    BY <1>4 DEF Take, TakeItem
  <2>2. /\ batch' \in Seq(Nat \ {0}) /\ queue' \in Seq(Nat)
        /\ StatesLog' = StatesLog
        /\ HasStop(queue) <=> HasStop(queue')
    BY <1>4, <2>1, ItemTaken DEF StatesInv, StatesLog
  <2> QED
    BY <1>1, <1>2, <2>1, <2>2 DEF StatesInv, AfterStop
<1>5. CASE Store
  <2>1. /\ rows' = rows \o batch /\ batch' = <<>> /\ queue' = queue
        /\ \/ thread = "storing" /\ thread' = "taking"
           \/ thread = "storing_last" /\ thread' \in {"finalising", "stopped"}
    BY <1>5 DEF Store
  <2>2. /\ rows' \in Seq(Nat \ {0}) /\ batch' \in Seq(Nat \ {0})
        /\ StatesLog' = StatesLog
    BY <2>1, BatchStored DEF StatesInv, StatesLog
  <2> QED
    BY <1>1, <1>2, <2>1, <2>2 DEF StatesInv, AfterStop
<1>6. CASE Finalise \/ Fail
  <2>1. /\ UNCHANGED <<rows, batch, queue>>
        /\ \/ thread = "finalising" /\ thread' = "stopped"
           \/ thread' = "failed"
    BY <1>6 DEF Finalise, Fail
  <2>2. StatesLog' = StatesLog
    BY <2>1 DEF StatesLog
  <2> QED
    BY <1>1, <1>2, <2>1, <2>2 DEF StatesInv, AfterStop
<1> QED
  BY <1>3, <1>4, <1>5, <1>6 DEF StatesStep

LEMMA StatesInvStep ==
  ASSUME SensingInv, "interrupt" \notin faults, [SensingNext]_sensingVars
  PROVE  StatesInv'
<1> USE DEF runVars, apiVars, hookVars, fixedVars, resultVars, writerVars, reportVars,
            StatesClosing
<1>1. Course /\ StatesInv
  BY DEF SensingInv
<1>2. CASE LoadFails \/ StartDecisions \/ Enter
  BY <1>1, <1>2, StatesFrame DEF LoadFails, StartDecisions, Enter
<1>3. CASE StartStates
  <2>1. /\ UNCHANGED <<published, refused, hook, rows, batch, queue, completion>>
        /\ main = "idle" /\ main' # "join_states"
        /\ thread = "none" /\ thread' \in {"taking", "failed"}
    BY <1>3, RunAssumption DEF StartStates, Start, SensingInv, ReportsInv, Whereabouts
  <2>2. Missing' = Missing /\ StatesLog' = StatesLog
    BY <2>1 DEF Missing, StatesLog
  <2> QED
    BY <1>1, <2>1, <2>2 DEF StatesInv, AfterStop
<1>4. CASE Completed \/ TimesOut \/ GraceEnds \/ Cancelled \/ Interrupted
  BY <1>1, <1>4, StatesFrame
  DEF Completed, TimesOut, GraceEnds, Cancelled, Interrupted, Stops, Waits
<1>5. CASE ReplayLine
  BY <1>1, <1>5, StatesPublish DEF ReplayLine, Course
<1>6. CASE ReplayEnds \/ ReplayFails \/ CloseSensor
  BY <1>1, <1>6, StatesFrame DEF ReplayEnds, ReplayFails, CloseSensor, CloseFails
<1>7. CASE StopDecisions \/ JoinDecisions
  BY <1>1, <1>7, StatesFrame DEF StopDecisions, JoinDecisions, CloseFails
<1>8. CASE StopStates
  BY <1>1, <1>8, StatesStop
<1>9. CASE JoinStates \/ Clear \/ Report
  BY <1>1, <1>9, StatesFrame
  DEF JoinStates, ReplayRaises, CloseFails, Clear, Report, ReportSensing, ReportControl,
      ReportReplay, Raises, Returns
<1>10. CASE Callback
  <2>1. /\ hook = "none" /\ bus = "subscribed" /\ main \notin StatesClosing
        /\ UNCHANGED <<main, rows, batch, queue, thread, completion>>
    BY <1>1, <1>10 DEF Callback, Course, Waits
  <2>2. CASE SnapshotSkipped \/ SnapshotFails
    BY <1>1, <2>1, <2>2, StatesFrame DEF SnapshotSkipped, SnapshotFails
  <2>3. CASE Publish
    BY <1>1, <2>1, <2>3, StatesPublish
  <2> QED
    BY <1>10, <2>2, <2>3 DEF Callback
<1>11. CASE EnqueueState
  BY <1>1, <1>11, StatesEnqueue
<1>12. CASE EnqueueDecision \/ SimulationReturns
  BY <1>1, <1>12, StatesFrame DEF EnqueueDecision, SimulationReturns
<1>13. CASE StatesStep
  BY <1>1, <1>13, StatesWrite
<1>14. CASE DecisionsStep \/ UNCHANGED sensingVars
  BY <1>1, <1>14, StatesFrame DEF DecisionsStep, sensingVars
<1> QED
  BY <1>2, <1>3, <1>4, <1>5, <1>6, <1>7, <1>8, <1>9, <1>10, <1>11, <1>12, <1>13, <1>14
  DEF SensingNext, MainStep, SimulationStep

-----------------------------------------------------------------------------
(* The writer of the decisions, step by step.                              *)

LEMMA DecisionsFrame ==
  ASSUME DecisionsInv,
         UNCHANGED <<kind, published, snapshots, dRows, dBatch, dQueue, dThread>>,
         hook' \in {"none", hook}, callbackErrors => callbackErrors',
         hook # "none" /\ hook' = "none" => callbackErrors',
         main \in DecisionsClosing => main' \in DecisionsClosing
  PROVE  DecisionsInv'
<1>1. DecisionsLog' = DecisionsLog
  BY DEF DecisionsLog
<1> QED
  BY <1>1 DEF DecisionsInv

LEMMA DecisionsPublish ==
  ASSUME DecisionsInv, Publish, hook = "none", main' = main,
         UNCHANGED <<kind, dRows, dBatch, dQueue, dThread>>
  PROVE  DecisionsInv'
<1>1. DecisionsLog' = DecisionsLog
  BY DEF DecisionsLog
<1>2. CASE kind = "control"
  <2>1. /\ snapshots' = snapshots /\ published' = snapshots + 1
        /\ callbackErrors' \/ hook' # "none"
    BY <1>2 DEF Publish, AfterState
  <2> QED
    BY <1>1, <1>2, <2>1 DEF DecisionsInv
<1>3. CASE kind # "control"
  <2>1. /\ snapshots' \in {snapshots, published + 1}
        /\ snapshots = published
        /\ hook' # "decision"
    BY <1>3 DEF Publish, AfterState
  <2> QED
    BY <1>1, <1>3, <2>1 DEF DecisionsInv
<1> QED
  BY <1>2, <1>3

LEMMA DecisionsEnqueue ==
  ASSUME Course, DecisionsInv, EnqueueDecision
  PROVE  DecisionsInv'
<1>1. /\ hook = "decision" /\ hook' = "none" /\ main \notin DecisionsClosing
      /\ UNCHANGED <<published, main, kind>>
  BY DEF EnqueueDecision, Course, Waits, DecisionsClosing, StatesClosing, runVars, fixedVars
<1>2. /\ kind = "control" /\ published = snapshots + 1 /\ snapshots \in Nat
      /\ published \in Nat \ {0}
      /\ ~(HasStop(dQueue) \/ dThread \in AfterStop)
  BY <1>1 DEF DecisionsInv
<1>3. CASE Decisions!Put(published) /\ snapshots' = published
  <2>1. UNCHANGED <<dThread, dBatch, dRows>> /\ dQueue' = Append(dQueue, published)
    BY <1>3 DEF Decisions!Put
  <2>2. /\ \A y \in 1 .. snapshots : y < published
        /\ 1 .. snapshots = 1 .. published - 1
        /\ 1 .. snapshots' = (1 .. snapshots) \cup {published}
    BY <1>2, <1>3
  <2>3. /\ dQueue' \in Seq(Nat) /\ ~HasStop(dQueue')
        /\ Carries(DecisionsLog', (1 .. snapshots) \cup {published})
        /\ Numbered(DecisionsLog')
    BY <1>2, <2>1, <2>2, ItemPut DEF DecisionsInv, DecisionsLog
  <2> QED
    BY <1>1, <1>2, <1>3, <2>1, <2>2, <2>3 DEF DecisionsInv
<1>4. CASE Decisions!PutTimesOut(Slow) /\ callbackErrors' = TRUE /\ UNCHANGED snapshots
  BY <1>1, <1>4, DecisionsFrame DEF Decisions!PutTimesOut, Decisions!writerVars
<1> QED
  BY <1>3, <1>4 DEF EnqueueDecision

LEMMA DecisionsStop ==
  ASSUME DecisionsInv, StopDecisions, kind = "control"
  PROVE  DecisionsInv'
<1>1. /\ main = "stop_decisions" /\ main' \in DecisionsClosing
      /\ UNCHANGED <<published, snapshots, hook, callbackErrors, kind>>
      /\ ~(HasStop(dQueue) \/ dThread \in AfterStop)
  BY DEF StopDecisions, DecisionsClosing, StatesClosing, DecisionsInv, hookVars, runVars,
         fixedVars
<1>2. CASE Decisions!Put(STOP)
  <2>1. UNCHANGED <<dThread, dBatch, dRows>> /\ dQueue' = Append(dQueue, STOP)
    BY <1>2 DEF Decisions!Put
  <2>2. /\ dQueue' \in Seq(Nat)
        /\ Carries(DecisionsLog', 1 .. snapshots)
        /\ Numbered(DecisionsLog')
    BY <1>1, <2>1, StopPut DEF DecisionsInv, DecisionsLog
  <2> QED
    BY <1>1, <2>1, <2>2 DEF DecisionsInv
<1>3. CASE Decisions!PutTimesOut(Slow)
  BY <1>1, <1>3, DecisionsFrame DEF Decisions!PutTimesOut, Decisions!writerVars
<1> QED
  BY <1>2, <1>3 DEF StopDecisions

LEMMA DecisionsWrite ==
  ASSUME DecisionsInv, DecisionsStep
  PROVE  DecisionsInv'
<1>1. UNCHANGED <<published, snapshots, hook, callbackErrors, main, kind>>
  BY DEF DecisionsStep, hookVars, runVars, fixedVars
<1>2. CASE Decisions!Take /\ Head(dQueue) = STOP
  <2>1. dQueue # <<>> /\ dRows' = dRows /\ dBatch' = dBatch /\ dQueue' = Tail(dQueue)
        /\ dThread = "taking" /\ dThread' = "storing_last"
    BY <1>2 DEF Decisions!Take, Decisions!TakeItem, STOP, Decisions!STOP
  <2>2. kind = "control" /\ Carries(DecisionsLog, 1 .. snapshots) /\ Numbered(DecisionsLog)
    BY <2>1 DEF DecisionsInv
  <2>3. /\ HasStop(dQueue) /\ dQueue' = <<>>
        /\ Carries(DecisionsLog', 1 .. snapshots)
        /\ Numbered(DecisionsLog')
    BY <1>2, <2>1, <2>2, StopTaken DEF DecisionsInv, DecisionsLog
  <2>4. dQueue' \in Seq(Nat)
    BY <2>3
  <2> QED
    BY <1>1, <2>1, <2>2, <2>3, <2>4 DEF DecisionsInv, AfterStop
<1>3. CASE Decisions!Take /\ Head(dQueue) # STOP
  <2>1. /\ dQueue # <<>> /\ dRows' = dRows /\ dBatch' = Append(dBatch, Head(dQueue))
        /\ dQueue' = Tail(dQueue)
        /\ dThread = "taking" /\ dThread' \in {"taking", "storing"}
    BY <1>3 DEF Decisions!Take, Decisions!TakeItem, STOP, Decisions!STOP
  <2>2. /\ dBatch' \in Seq(Nat \ {0}) /\ dQueue' \in Seq(Nat)
        /\ DecisionsLog' = DecisionsLog
        /\ HasStop(dQueue) <=> HasStop(dQueue')
    BY <1>3, <2>1, ItemTaken DEF DecisionsInv, DecisionsLog
  <2> QED
    BY <1>1, <2>1, <2>2 DEF DecisionsInv, AfterStop
<1>4. CASE StoreDecisions
  <2>1. /\ dRows' = dRows \o dBatch /\ dBatch' = <<>> /\ dQueue' = dQueue
        /\ \/ dThread = "storing" /\ dThread' = "taking"
           \/ dThread = "storing_last" /\ dThread' = "stopped"
    BY <1>4 DEF StoreDecisions, Decisions!Store
  <2>2. /\ dRows' \in Seq(Nat \ {0}) /\ dBatch' \in Seq(Nat \ {0})
        /\ DecisionsLog' = DecisionsLog
    BY <2>1, BatchStored DEF DecisionsInv, DecisionsLog
  <2> QED
    BY <1>1, <2>1, <2>2 DEF DecisionsInv, AfterStop
<1>5. CASE Decisions!Fail
  <2>1. /\ UNCHANGED <<dRows, dBatch, dQueue>> /\ dThread # "none" /\ dThread' = "failed"
    BY <1>5 DEF Decisions!Fail
  <2>2. DecisionsLog' = DecisionsLog
    BY <2>1 DEF DecisionsLog
  <2> QED
    BY <1>1, <2>1, <2>2 DEF DecisionsInv, AfterStop
<1> QED
  BY <1>2, <1>3, <1>4, <1>5 DEF DecisionsStep

LEMMA DecisionsInvStep ==
  ASSUME SensingInv, "interrupt" \notin faults, [SensingNext]_sensingVars
  PROVE  DecisionsInv'
<1> USE DEF runVars, apiVars, hookVars, fixedVars, resultVars, decisionVars,
            StatesClosing, DecisionsClosing
<1>1. Course /\ DecisionsInv /\ Whereabouts
  BY DEF SensingInv, ReportsInv
<1>2. CASE LoadFails \/ StartStates \/ Enter
  BY <1>1, <1>2, DecisionsFrame DEF LoadFails, StartStates, Enter
<1>3. CASE StartDecisions
  <2>1. /\ UNCHANGED <<published, snapshots, hook, callbackErrors, kind, dRows, dBatch, dQueue>>
        /\ main = "starting" /\ kind = "control"
        /\ dThread = "none" /\ dThread' \in {"taking", "failed"}
    BY <1>1, <1>3 DEF StartDecisions, Decisions!Start, Whereabouts
  <2>2. DecisionsLog' = DecisionsLog
    BY <2>1 DEF DecisionsLog
  <2> QED
    BY <1>1, <2>1, <2>2 DEF DecisionsInv, AfterStop
<1>4. CASE Completed \/ TimesOut \/ GraceEnds \/ Cancelled \/ Interrupted
  BY <1>1, <1>4, DecisionsFrame
  DEF Completed, TimesOut, GraceEnds, Cancelled, Interrupted, Stops, Waits
<1>5. CASE ReplayLine
  BY <1>1, <1>5, DecisionsPublish DEF ReplayLine
<1>6. CASE ReplayEnds \/ ReplayFails \/ CloseSensor
  BY <1>1, <1>6, DecisionsFrame DEF ReplayEnds, ReplayFails, CloseSensor, CloseFails
<1>7. CASE StopDecisions
  BY <1>1, <1>7, DecisionsStop DEF StopDecisions, Whereabouts
<1>8. CASE JoinDecisions \/ StopStates
  BY <1>1, <1>8, DecisionsFrame DEF JoinDecisions, CloseFails, StopStates, ReplayRaises
<1>9. CASE JoinStates \/ Clear \/ Report
  BY <1>1, <1>9, DecisionsFrame
  DEF JoinStates, ReplayRaises, CloseFails, Clear, Report, ReportSensing, ReportControl,
      ReportReplay, Raises, Returns
<1>10. CASE Callback
  <2>1. hook = "none" /\ UNCHANGED <<main, kind, dRows, dBatch, dQueue, dThread>>
    BY <1>10 DEF Callback
  <2>2. CASE SnapshotSkipped \/ SnapshotFails
    BY <1>1, <2>1, <2>2, DecisionsFrame DEF SnapshotSkipped, SnapshotFails
  <2>3. CASE Publish
    BY <1>1, <2>1, <2>3, DecisionsPublish
  <2> QED
    BY <1>10, <2>2, <2>3 DEF Callback
<1>11. CASE EnqueueState
  <2>1. /\ UNCHANGED <<main, kind, published, dRows, dBatch, dQueue, dThread>>
        /\ hook = "state" /\ AfterState(published) /\ published \in Nat
    BY <1>11 DEF EnqueueState, SensingInv, StatesInv
  <2>2. DecisionsLog' = DecisionsLog
    BY <2>1 DEF DecisionsLog
  <2>3. CASE kind = "control"
    BY <1>1, <2>1, <2>2, <2>3 DEF DecisionsInv, AfterState
  <2>4. CASE kind # "control"
    BY <1>1, <2>1, <2>2, <2>4 DEF DecisionsInv, AfterState
  <2> QED
    BY <2>3, <2>4
<1>12. CASE EnqueueDecision
  BY <1>1, <1>12, DecisionsEnqueue
<1>13. CASE SimulationReturns \/ StatesStep \/ UNCHANGED sensingVars
  <2>1. UNCHANGED <<kind, published, snapshots, dRows, dBatch, dQueue, dThread, hook,
                    callbackErrors, main>>
    BY <1>13 DEF SimulationReturns, StatesStep, sensingVars
  <2> QED
    BY <1>1, <2>1, DecisionsFrame
<1>14. CASE DecisionsStep
  BY <1>1, <1>14, DecisionsWrite
<1> QED
  BY <1>2, <1>3, <1>4, <1>5, <1>6, <1>7, <1>8, <1>9, <1>10, <1>11, <1>12, <1>13, <1>14
  DEF SensingNext, MainStep, SimulationStep

-----------------------------------------------------------------------------
(* The reports, step by step.                                              *)

LEMMA WhereaboutsStep ==
  ASSUME SensingInv, "interrupt" \notin faults, [SensingNext]_sensingVars
  PROVE  Whereabouts'
<1> USE DEF runVars, apiVars, hookVars, fixedVars, resultVars, reportVars, writerVars,
            decisionVars, Whereabouts, StatesClosing, Waits, Started
<1>1. Course /\ StatesInv /\ Whereabouts
  BY DEF SensingInv, ReportsInv
<1>2. CASE LoadFails
  BY <1>1, <1>2 DEF LoadFails
<1>3. CASE StartStates
  BY <1>1, <1>3 DEF StartStates, Start
<1>4. CASE StartDecisions
  BY <1>1, <1>4 DEF StartDecisions, Decisions!Start
<1>5. CASE Enter
  BY <1>1, <1>5, NoneAssumption DEF Enter
<1>6. CASE Completed
  BY <1>1, <1>6 DEF Completed, Returned
<1>7. CASE TimesOut \/ GraceEnds \/ Cancelled \/ Interrupted
  BY <1>1, <1>7 DEF TimesOut, GraceEnds, Cancelled, Interrupted, Stops
<1>8. CASE ReplayLine \/ ReplayEnds \/ ReplayFails
  BY <1>1, <1>8 DEF ReplayLine, ReplayEnds, ReplayFails
<1>9. CASE CloseSensor
  BY <1>1, <1>9 DEF CloseSensor, CloseFails
<1>10. CASE StopDecisions
  BY <1>1, <1>10 DEF StopDecisions, Decisions!Put, Decisions!PutTimesOut, Decisions!writerVars
<1>11. CASE JoinDecisions
  BY <1>1, <1>11 DEF JoinDecisions, CloseFails
<1>12. CASE StopStates
  BY <1>1, <1>12 DEF StopStates, Put, PutTimesOut, ReplayRaises
<1>13. CASE JoinStates
  BY <1>1, <1>13 DEF JoinStates, ReplayRaises, CloseFails
<1>14. CASE Clear
  BY <1>1, <1>14 DEF Clear
<1>15. CASE Report
  BY <1>1, <1>15 DEF Report, ReportSensing, ReportControl, ReportReplay, Raises, Returns
<1>16. CASE Callback
  BY <1>1, <1>16 DEF Callback
<1>17. CASE EnqueueState \/ EnqueueDecision
  BY <1>1, <1>17
  DEF EnqueueState, EnqueueDecision, Put, PutTimesOut, Decisions!Put, Decisions!PutTimesOut,
      Decisions!writerVars
<1>18. CASE SimulationReturns
  BY <1>1, <1>18 DEF SimulationReturns, Course
<1>19. CASE StatesStep
  BY <1>1, <1>19 DEF StatesStep, Take, TakeItem, Store, Fail, Finalise
<1>20. CASE DecisionsStep
  BY <1>1, <1>20
  DEF DecisionsStep, StoreDecisions, Decisions!Take, Decisions!TakeItem, Decisions!Store,
      Decisions!Fail
<1>21. CASE UNCHANGED sensingVars
  BY <1>1, <1>21 DEF sensingVars
<1> QED
  BY <1>2, <1>3, <1>4, <1>5, <1>6, <1>7, <1>8, <1>9, <1>10, <1>11, <1>12, <1>13, <1>14,
     <1>15, <1>16, <1>17, <1>18, <1>19, <1>20, <1>21
  DEF SensingNext, MainStep, SimulationStep

\* A writer that has been stopped is stopped for good, and what it had to do is done.
LEMMA StoppedStays ==
  ASSUME SensingInv, "interrupt" \notin faults, [SensingNext]_sensingVars,
         thread = "stopped"
  PROVE  thread' = "stopped" /\ UNCHANGED <<rows, published, refused, completion>>
<1> USE DEF runVars, apiVars, hookVars, fixedVars, resultVars, reportVars, writerVars
<1>1. /\ main \in StatesClosing /\ hook = "none" /\ simulation # "running"
  BY DEF SensingInv, StatesInv, Course, AfterStop, StatesClosing, Waits
<1>2. CASE MainStep
  <2>1. ~StartStates /\ ~ReplayLine /\ ~StopStates /\ ~TimesOut /\ ~GraceEnds /\ ~Cancelled
        /\ ~ReplayEnds /\ ~ReplayFails
    BY <1>1 DEF StartStates, Start, ReplayLine, StopStates, TimesOut, GraceEnds, Cancelled,
                Stops, ReplayEnds, ReplayFails, StatesClosing
  <2> QED
    BY <1>2, <2>1
    DEF MainStep, LoadFails, StartDecisions, Enter, Completed, Interrupted, CloseSensor,
        StopDecisions, JoinDecisions, JoinStates, Clear, Report
<1>3. CASE SimulationStep
  BY <1>1, <1>3
  DEF SimulationStep, Callback, EnqueueState, EnqueueDecision, SimulationReturns
<1>4. CASE StatesStep
  BY <1>4 DEF StatesStep, Take, TakeItem, Store, Fail, Finalise
<1>5. CASE DecisionsStep \/ UNCHANGED sensingVars
  BY <1>5 DEF DecisionsStep, sensingVars
<1> QED
  BY <1>2, <1>3, <1>4, <1>5 DEF SensingNext

LEMMA DecisionsStoppedStays ==
  ASSUME SensingNext \/ UNCHANGED sensingVars, dThread = "stopped"
  PROVE  dThread' = "stopped"
<1> USE DEF decisionVars
<1>1. CASE MainStep
  BY <1>1
  DEF MainStep, LoadFails, StartStates, StartDecisions, Decisions!Start, Enter, Completed,
      TimesOut, GraceEnds, Cancelled, Stops, Interrupted, ReplayLine, ReplayEnds, ReplayFails,
      CloseSensor, StopDecisions, Decisions!Put, Decisions!PutTimesOut, Decisions!writerVars,
      JoinDecisions, StopStates, JoinStates, Clear, Report
<1>2. CASE SimulationStep
  BY <1>2
  DEF SimulationStep, Callback, EnqueueState, EnqueueDecision, SimulationReturns,
      Decisions!Put, Decisions!PutTimesOut, Decisions!writerVars
<1>3. CASE StatesStep \/ UNCHANGED sensingVars
  BY <1>3 DEF StatesStep, sensingVars
<1>4. CASE DecisionsStep
  BY <1>4
  DEF DecisionsStep, StoreDecisions, Decisions!Take, Decisions!TakeItem, Decisions!Store,
      Decisions!Fail
<1> QED
  BY <1>1, <1>2, <1>3, <1>4 DEF SensingNext

\* The callers stay, and so do the faults that may occur.
LEMMA FixedStays ==
  ASSUME SensingNext \/ UNCHANGED sensingVars
  PROVE  UNCHANGED <<kind, faults>>
<1> USE DEF runVars, fixedVars
<1>1. CASE MainStep
  BY <1>1
  DEF MainStep, LoadFails, StartStates, StartDecisions, Enter, Completed,
      TimesOut, GraceEnds, Cancelled, Stops, Interrupted, ReplayLine, ReplayEnds, ReplayFails,
      CloseSensor, StopDecisions, JoinDecisions, StopStates, JoinStates, Clear, Report
<1>2. CASE SimulationStep
  BY <1>2 DEF SimulationStep, Callback, EnqueueState, EnqueueDecision, SimulationReturns
<1>3. CASE StatesStep \/ DecisionsStep \/ UNCHANGED sensingVars
  BY <1>3 DEF StatesStep, DecisionsStep, sensingVars
<1> QED
  BY <1>1, <1>2, <1>3 DEF SensingNext

LEMMA ClosedInvStep ==
  ASSUME SensingInv, "interrupt" \notin faults, [SensingNext]_sensingVars
  PROVE  ClosedInv'
<1> USE DEF runVars, apiVars, hookVars, fixedVars, resultVars, reportVars, ClosedInv
<1>1. Course /\ StatesInv /\ Whereabouts /\ ClosedInv /\ UNCHANGED kind
  BY FixedStays DEF SensingInv, ReportsInv
<1>2. WritersStopped => WritersStopped'
  BY <1>1, StoppedStays, DecisionsStoppedStays DEF WritersStopped
<1>3. CASE LoadFails \/ StartStates \/ StartDecisions \/ Enter
  <2>1. main \in {"idle", "starting", "entering"}
        /\ main' \notin {"clearing", "reporting"} /\ UNCHANGED runStatus
    BY <1>1, <1>3 DEF LoadFails, StartStates, StartDecisions, Enter, Whereabouts
  <2> QED
    BY <1>1, <2>1
<1>4. CASE Completed \/ TimesOut \/ GraceEnds \/ Cancelled \/ Interrupted
  BY <1>1, <1>4 DEF Completed, TimesOut, GraceEnds, Cancelled, Interrupted, Stops, Waits
<1>5. CASE ReplayLine \/ ReplayEnds \/ ReplayFails
  BY <1>1, <1>5 DEF ReplayLine, ReplayEnds, ReplayFails
<1>6. CASE CloseSensor
  BY <1>1, <1>6 DEF CloseSensor, CloseFails, Whereabouts, Started
<1>7. CASE StopDecisions \/ StopStates
  BY <1>1, <1>7 DEF StopDecisions, StopStates, ReplayRaises
<1>8. CASE JoinDecisions
  BY <1>1, <1>8 DEF JoinDecisions, CloseFails
<1>9. CASE JoinStates
  <2>1. thread = "stopped" => WritersStopped
    BY <1>1, <1>9 DEF JoinStates, StatesInv, AfterStop, Completion, WritersStopped, Whereabouts
  <2> QED
    BY <1>1, <1>2, <1>9, <2>1 DEF JoinStates, ReplayRaises, CloseFails, Whereabouts
<1>10. CASE Clear
  BY <1>1, <1>2, <1>10 DEF Clear, Required, Whereabouts
<1>11. CASE Report
  BY <1>1, <1>2, <1>11
  DEF Report, ReportSensing, ReportControl, ReportReplay, Raises, Returns
<1>12. CASE SimulationStep
  BY <1>1, <1>2, <1>12
  DEF SimulationStep, Callback, EnqueueState, EnqueueDecision, SimulationReturns, Course, Waits
<1>13. CASE StatesStep \/ DecisionsStep \/ UNCHANGED sensingVars
  BY <1>1, <1>2, <1>13 DEF StatesStep, DecisionsStep, sensingVars
<1> QED
  BY <1>3, <1>4, <1>5, <1>6, <1>7, <1>8, <1>9, <1>10, <1>11, <1>12, <1>13
  DEF SensingNext, MainStep

\* A row is a row.
LEMMA RowIsRow ==
  ASSUME StatesInv, NEW status \in {"RUNNING", "COMPLETED", "FAILED"},
         NEW drained \in BOOLEAN
  PROVE  Row(status, published, Len(rows), Cardinality(refused), drained) # None
<1>1. published \in Int /\ refused \subseteq 1 .. published
  BY DEF StatesInv, Missing
<1>2. IsFiniteSet(refused)
  <2>1. IsFiniteSet(1 .. published)
    BY <1>1, FS_Interval
  <2> QED
    BY <1>1, <2>1, FS_Subset
<1>3. Cardinality(refused) \in Nat
  BY <1>2, FS_CardinalityType
<1>4. Len(rows) \in Nat /\ published \in Nat
  BY LenProperties DEF StatesInv
<1>5. Row(status, published, Len(rows), Cardinality(refused), drained) \in Rows
  BY <1>3, <1>4 DEF Row, Rows
<1> QED
  BY <1>5, NoneAssumption

LEMMA RowFrame ==
  ASSUME RowInv, UNCHANGED <<row, thread, rows, kind, faults>>,
         thread = "stopped" => UNCHANGED <<published, refused>>,
         main' \in {"clearing", "reporting", "returned"} =>
           UNCHANGED <<main, published, refused, simulation>>
  PROVE  RowInv'
  BY DEF RowInv, Faultless, Slow, May

LEMMA RowInvStep ==
  ASSUME SensingInv, "interrupt" \notin faults, [SensingNext]_sensingVars
  PROVE  RowInv'
<1> USE DEF runVars, apiVars, hookVars, fixedVars, resultVars, reportVars, writerVars
<1>1. Course /\ StatesInv /\ Whereabouts /\ RowInv /\ UNCHANGED <<kind, faults>>
  BY FixedStays DEF SensingInv, ReportsInv
<1>2. thread = "stopped" =>
        thread' = "stopped" /\ UNCHANGED <<rows, published, refused, completion>>
  BY StoppedStays
<1>3. UNCHANGED <<Slow, Faultless>>
  BY <1>1 DEF Slow, Faultless, May
<1>4. CASE LoadFails \/ StartDecisions \/ Enter
  BY <1>1, <1>4, RowFrame DEF LoadFails, StartDecisions, Enter
<1>5. CASE StartStates
  <2>1. /\ main = "idle" /\ main' \notin {"clearing", "reporting", "returned"}
        /\ thread # "stopped" /\ thread' # "stopped"
        /\ row' \in {None, Begun}
    BY <1>1, <1>5 DEF StartStates, Start, Whereabouts
  <2>2. ~Begun.drained
    BY DEF Begun, Row
  <2> QED
    BY <1>1, <2>1, <2>2 DEF RowInv
<1>6. CASE Completed \/ TimesOut \/ GraceEnds \/ Cancelled \/ Interrupted
  BY <1>1, <1>6, RowFrame DEF Completed, TimesOut, GraceEnds, Cancelled, Interrupted, Stops
<1>7. CASE ReplayLine \/ ReplayEnds \/ ReplayFails
  BY <1>1, <1>2, <1>7, RowFrame DEF ReplayLine, ReplayEnds, ReplayFails
<1>8. CASE CloseSensor
  BY <1>1, <1>2, <1>3, <1>8
  DEF CloseSensor, CloseFails, Whereabouts, RowInv, Faultless
<1>9. CASE StopDecisions \/ StopStates
  BY <1>1, <1>9, RowFrame DEF StopDecisions, StopStates, ReplayRaises, Put, PutTimesOut
<1>10. CASE JoinDecisions
  BY <1>1, <1>2, <1>3, <1>10 DEF JoinDecisions, CloseFails, Whereabouts, RowInv
<1>11. CASE JoinStates
  <2>1. ~Blocked(thread, queue)
    BY <1>1, <1>11 DEF JoinStates, StatesInv, Blocked, AfterStop, HasStop
  <2> QED
    BY <1>1, <1>2, <1>3, <1>11, <2>1
    DEF JoinStates, ReplayRaises, CloseFails, Whereabouts, RowInv, Faultless
<1>12. CASE Clear
  BY <1>1, <1>2, <1>3, <1>12 DEF Clear, RowInv, StatesClosing, Whereabouts
<1>13. CASE Report
  <2>1. /\ main = "reporting" /\ main' \in {"returned", "raised"}
        /\ UNCHANGED <<thread, rows, published, refused, simulation, exitCode>>
    BY <1>13
    DEF Report, ReportSensing, ReportControl, ReportReplay, Raises, Returns
  <2>2. CASE UNCHANGED row /\ ~(kind = "sensing" /\ main' = "returned")
    BY <1>1, <1>3, <2>1, <2>2 DEF RowInv
  <2>3. CASE /\ kind = "sensing" /\ main' = "returned" /\ row # None
             /\ row' = Row(IF exitCode = 0 THEN "COMPLETED" ELSE "FAILED", published,
                           Persisted, Cardinality(refused), thread = "stopped")
    <3>1. /\ row'.last = published /\ row'.persisted = Len(rows)
          /\ row'.errors = Cardinality(refused)
          /\ row'.drained <=> thread = "stopped"
          /\ row'.status = "COMPLETED" => simulation = "ok"
      BY <1>1, <2>3 DEF Row, Persisted, Whereabouts
    <3>2. row' # None
      BY <1>1, <2>3, RowIsRow DEF Persisted
    <3> QED
      BY <1>1, <1>3, <2>1, <2>3, <3>1, <3>2 DEF RowInv
  <2> QED
    BY <1>13, <2>1, <2>2, <2>3
    DEF Report, ReportSensing, ReportControl, ReportReplay, Raises, Returns
<1>14. CASE SimulationStep
  BY <1>1, <1>2, <1>14, RowFrame
  DEF SimulationStep, Callback, EnqueueState, EnqueueDecision, SimulationReturns, Course,
      Waits, Put, PutTimesOut
<1>15. CASE (Take \/ Store \/ Fail) /\ UNCHANGED <<row, main, published, refused, simulation>>
  <2>1. thread \notin {"none", "stopped", "failed"}
    BY <1>15 DEF Take, TakeItem, Store, Fail
  <2>2. thread' = "stopped" => FALSE
    BY <1>15, RunAssumption DEF Take, TakeItem, Store, Fail
  <2> QED
    BY <1>1, <1>3, <2>1, <2>2, <1>15 DEF RowInv
<1>16. CASE /\ Finalise /\ UNCHANGED <<main, published, refused, simulation>>
            /\ row' = Row("COMPLETED", completion.last, Len(rows), completion.errors, TRUE)
  <2>1. /\ thread = "finalising" /\ thread' = "stopped" /\ rows' = rows
        /\ completion = Completion
    BY <1>1, <1>16 DEF Finalise, StatesInv, AfterStop
  <2>2. row' = Row("COMPLETED", published, Len(rows), Cardinality(refused), TRUE)
    BY <1>16, <2>1 DEF Completion
  <2>3. /\ row'.last = published /\ row'.persisted = Len(rows)
        /\ row'.errors = Cardinality(refused)
        /\ row'.status = "COMPLETED"
    BY <2>2 DEF Row
  <2>4. row' # None
    BY <1>1, <2>2, RowIsRow
  <2> QED
    BY <1>1, <1>3, <1>16, <2>1, <2>3, <2>4 DEF RowInv
<1>17. CASE DecisionsStep \/ UNCHANGED sensingVars
  BY <1>1, <1>17, RowFrame DEF DecisionsStep, sensingVars
<1>18. StatesStep => UNCHANGED <<main, published, refused, simulation>>
  BY DEF StatesStep
<1> QED
  BY <1>4, <1>5, <1>6, <1>7, <1>8, <1>9, <1>10, <1>11, <1>12, <1>13, <1>14, <1>15, <1>16,
     <1>17, <1>18
  DEF SensingNext, MainStep, StatesStep

\* What is stored or taken is among what was published.
LEMMA NothingInvented ==
  ASSUME StatesInv, refused = {}
  PROVE  /\ \A i \in DOMAIN (rows \o batch) : (rows \o batch)[i] = i
         /\ Len(rows \o batch) <= published
         /\ Len(rows \o batch) = Len(rows) + Len(batch)
<1>1. PICK w : w = rows \o batch
  OBVIOUS
<1>2. /\ w \in Seq(Nat) /\ ~HasStop(w) /\ queue \in Seq(Nat)
      /\ Carries(w \o queue, (1 .. published) \ Missing) /\ Numbered(w \o queue)
      /\ published \in Nat
  BY <1>1, Items DEF StatesInv, StatesLog
<1>3. /\ Len(w) \in Nat /\ DOMAIN w = 1 .. Len(w)
      /\ DOMAIN w \subseteq DOMAIN (w \o queue)
      /\ \A i \in DOMAIN w : (w \o queue)[i] = w[i]
  BY <1>2, Concatenation
<1>4. ASSUME NEW i \in DOMAIN w
      PROVE  w[i] = i /\ i \in 1 .. published
  <2>1. w[i] = i /\ w[i] # STOP
    BY <1>2, <1>3 DEF Numbered, HasStop
  <2>2. (w \o queue)[i] \in {(w \o queue)[j] : j \in DOMAIN (w \o queue)} \ {STOP}
    BY <1>3, <2>1
  <2>3. (w \o queue)[i] \in (1 .. published) \ Missing
    BY <1>2, <2>2 DEF Carries
  <2> QED
    BY <1>3, <2>1, <2>3
<1>5. Len(w) <= published
  <2>1. Len(w) = 0 \/ Len(w) \in DOMAIN w
    BY <1>3
  <2> QED
    BY <1>2, <1>4, <2>1
<1>6. Len(rows \o batch) = Len(rows) + Len(batch)
  BY Items, Concatenation DEF StatesInv
<1> QED
  BY <1>1, <1>4, <1>5, <1>6

LEMMA VerdictInvStep ==
  ASSUME SensingInv, "interrupt" \notin faults, [SensingNext]_sensingVars
  PROVE  VerdictInv'
<1> USE DEF runVars, apiVars, hookVars, fixedVars, resultVars, reportVars, writerVars
<1>1. Course /\ StatesInv /\ Whereabouts /\ VerdictInv /\ UNCHANGED <<kind, faults>>
  BY FixedStays DEF SensingInv, ReportsInv
<1>2. CASE Report
  <2>1. /\ main' \in {"returned", "raised"} /\ (main' = "raised" => verdict' = verdict)
        /\ main = "reporting"
        /\ UNCHANGED <<published, refused, rows, simulation>>
        /\ main' = "returned" => (verdict' = "PASS" => Passes)
        /\ kind = "control" /\ main' = "returned" =>
             dRow' = IF dRow = None THEN None ELSE Finalised
    BY <1>2 DEF Report, ReportSensing, ReportControl, ReportReplay, Raises, Returns
  <2>2. verdict' = "PASS" => Passes
    BY <1>1, <2>1, NoneAssumption DEF VerdictInv
  <2>3. verdict' = "PASS" /\ kind # "control" =>
          published = Steps /\ refused = {} /\ Len(rows) = Steps
    BY <2>2 DEF Passes, Persisted
  <2>4. /\ Finalised.status = "COMPLETED" => simulation = "ok"
        /\ Finalised.decisions = published
    BY <1>1 DEF Finalised, DecisionRow, Whereabouts
  <2> QED
    BY <1>1, <2>1, <2>3, <2>4 DEF VerdictInv
<1>3. CASE MainStep /\ ~Report
  <2>1. /\ verdict' = verdict /\ main # "returned" /\ main' # "returned"
    BY <1>1, <1>3
    DEF MainStep, LoadFails, StartStates, StartDecisions, Enter, Completed, TimesOut,
        GraceEnds, Cancelled, Stops, Interrupted, ReplayLine, ReplayEnds, ReplayFails,
        CloseSensor, CloseFails, StopDecisions, JoinDecisions, StopStates, ReplayRaises,
        JoinStates, Clear, Waits, Whereabouts
  <2> QED
    BY <1>1, <2>1, NoneAssumption DEF VerdictInv
<1>4. CASE SimulationStep
  <2>1. UNCHANGED <<main, verdict, dRow>> /\ main # "returned"
    BY <1>1, <1>4
    DEF SimulationStep, Callback, EnqueueState, EnqueueDecision, SimulationReturns, Course,
        Waits
  <2> QED
    BY <1>1, <2>1, NoneAssumption DEF VerdictInv
<1>5. CASE StatesStep
  <2>1. UNCHANGED <<main, verdict, dRow, published, refused, simulation>>
    BY <1>5 DEF StatesStep
  <2>2. rows' \in {rows, rows \o batch}
    BY <1>5 DEF StatesStep, Take, TakeItem, Store, Fail, Finalise
  <2>3. refused = {} /\ published = Steps /\ Len(rows) = Steps => Len(rows') = Steps
    <3> SUFFICES ASSUME refused = {}, published = Steps, Len(rows) = Steps,
                        rows' = rows \o batch
                 PROVE  Len(rows') = Steps
      BY <2>2
    <3>1. Len(rows') <= Steps /\ Len(rows') = Steps + Len(batch) /\ Len(batch) \in Nat
      BY <1>1, NothingInvented, LenProperties DEF StatesInv
    <3>2. Steps \in Nat
      BY RunAssumption
    <3> QED
      BY <3>1, <3>2
  <2> QED
    BY <1>1, <2>1, <2>3 DEF VerdictInv
<1>6. CASE DecisionsStep \/ UNCHANGED sensingVars
  BY <1>1, <1>6 DEF DecisionsStep, sensingVars, VerdictInv
<1> QED
  BY <1>2, <1>3, <1>4, <1>5, <1>6 DEF SensingNext

-----------------------------------------------------------------------------
(* Theorems.                                                               *)

LEMMA SensingInitInv == SensingInit => SensingInv
<1> SUFFICES ASSUME SensingInit PROVE SensingInv
  OBVIOUS
<1> USE DEF SensingInit, WriterInit, Decisions!WriterInit
<1>1. Course
  BY DEF Course, Waits
<1>2. <<>> \in Seq(Nat) /\ <<>> \in Seq(Nat \ {0}) /\ (<<>> \o <<>>) \o <<>> = <<>>
      /\ DOMAIN <<>> = {}
  BY EmptySeq, ConcatEmptySeq
<1>3. Carries(<<>>, {}) /\ Numbered(<<>>) /\ ~HasStop(<<>>)
  BY <1>2 DEF Carries, Numbered, HasStop
<1>4. Missing = {} /\ 1 .. published = {} /\ 1 .. snapshots = {}
  BY DEF Missing
<1>5. StatesLog = <<>> /\ DecisionsLog = <<>>
  BY <1>2 DEF StatesLog, DecisionsLog
<1>6. StatesInv
  BY <1>2, <1>3, <1>4, <1>5 DEF StatesInv, AfterStop
<1>7. DecisionsInv
  BY <1>2, <1>3, <1>4, <1>5 DEF DecisionsInv, AfterStop
<1>8. Whereabouts /\ ClosedInv /\ RowInv /\ VerdictInv
  BY RunAssumption, NoneAssumption DEF Whereabouts, Waits, ClosedInv, RowInv, VerdictInv
<1> QED
  BY <1>1, <1>6, <1>7, <1>8 DEF SensingInv, ReportsInv

\* The inductive invariant: what has been published is stored, taken, queued, refused
\* or on its way, STOP is the last of it, and the reports are about all of it.
THEOREM SensingInvariant == SensingSpec => []SensingInv
<1>1. SensingInit => SensingInv
  BY SensingInitInv
<1>2. SensingInv /\ [SensingNext]_sensingVars => SensingInv'
  <2> SUFFICES ASSUME SensingInv, [SensingNext]_sensingVars PROVE SensingInv'
    OBVIOUS
  <2>1. UNCHANGED faults
    BY FixedStays
  <2>2. "interrupt" \notin faults => Course' /\ StatesInv' /\ DecisionsInv' /\ ReportsInv'
    BY CourseStep, StatesInvStep, DecisionsInvStep, WhereaboutsStep, ClosedInvStep,
       RowInvStep, VerdictInvStep
    DEF ReportsInv
  <2> QED
    BY <2>1, <2>2 DEF SensingInv
<1> QED
  BY <1>1, <1>2, PTL DEF SensingSpec

\* The API state is not deleted under a running simulation.
THEOREM StateOutlives == SensingSpec => []StateOutlivesSimulation
<1>1. SensingInv => StateOutlivesSimulation
  BY DEF SensingInv, Course, Waits, StateOutlivesSimulation
<1> QED
  BY <1>1, SensingInvariant, PTL

\* When a writer has stopped, nothing it was given is anywhere but in its rows.
LEMMA RowsAreAll ==
  ASSUME StatesInv, Course, thread = "stopped"
  PROVE  /\ Carries(rows, (1 .. published) \ refused) /\ ~HasStop(rows)
         /\ refused = {} => Numbered(rows)
<1>1. /\ hook = "none" /\ batch = <<>> /\ queue = <<>> /\ rows \in Seq(Nat \ {0})
  BY DEF StatesInv, Course, AfterStop, StatesClosing, Waits
<1>2. Missing = refused
  BY <1>1 DEF Missing
<1>3. rows \in Seq(Nat) /\ ~HasStop(rows)
  BY <1>1, Items
<1>4. (rows \o <<>>) \o <<>> = rows
  BY <1>3, ConcatEmptySeq
<1> QED
  BY <1>1, <1>2, <1>3, <1>4 DEF StatesInv, StatesLog

LEMMA DecisionRowsAreAll ==
  ASSUME DecisionsInv, dThread = "stopped"
  PROVE  Carries(dRows, 1 .. snapshots) /\ Numbered(dRows) /\ ~HasStop(dRows)
<1>1. /\ dBatch = <<>> /\ dQueue = <<>> /\ dRows \in Seq(Nat \ {0}) /\ kind = "control"
  BY DEF DecisionsInv, AfterStop
<1>2. dRows \in Seq(Nat) /\ ~HasStop(dRows)
  BY <1>1, Items
<1>3. (dRows \o <<>>) \o <<>> = dRows
  BY <1>2, ConcatEmptySeq
<1> QED
  BY <1>1, <1>2, <1>3 DEF DecisionsInv, DecisionsLog

\* A numbered sequence of the first n items is the sequence of the first n items.
LEMMA FirstItems ==
  ASSUME NEW s, NEW n \in Nat, Carries(s, 1 .. n), Numbered(s), ~HasStop(s)
  PROVE  s = [i \in 1 .. n |-> i] /\ Len(s) = n
<1>1. s \in Seq(Nat) /\ Len(s) \in Nat /\ DOMAIN s = 1 .. Len(s)
  BY LenProperties DEF Carries
<1>2. \A i \in DOMAIN s : s[i] = i
  BY DEF Numbered, HasStop
<1>3. {s[i] : i \in DOMAIN s} = 1 .. n
  <2>1. {s[i] : i \in DOMAIN s} \ {STOP} = 1 .. n
    BY DEF Carries
  <2> QED
    BY <2>1 DEF HasStop
<1>4. DOMAIN s = 1 .. n
  BY <1>2, <1>3
<1>5. Len(s) = n
  <2>1. PICK m \in Nat : m = Len(s)
    BY <1>1
  <2>2. 1 .. m = 1 .. n /\ m \in Nat
    BY <1>1, <1>4, <2>1
  <2>3. m = n
    BY <2>2
  <2> QED
    BY <2>1, <2>3
<1>6. s = [i \in DOMAIN s |-> s[i]]
  BY <1>1, LenProperties
<1> QED
  BY <1>2, <1>4, <1>5, <1>6

\* The exception of the properties below is a run whose faults include the interrupt
\* that closes everything under a running simulation.
NoInterrupt == \A f \in FaultSets : "interrupt" \notin f

\* A published state is in the database when the worker has stopped, in order and
\* once, unless the bus counts an error for it; and so is every decision.
THEOREM PublishedIsStored ==
  ASSUME NoInterrupt
  PROVE  SensingSpec => []NothingVanishes
<1>1. SensingInv => NothingVanishes
  <2> SUFFICES ASSUME SensingInv PROVE NothingVanishes
    OBVIOUS
  <2>1. Course /\ StatesInv /\ DecisionsInv
    BY DEF SensingInv, NoInterrupt
  <2>2. ASSUME thread = "stopped"
        PROVE  /\ {rows[i] : i \in DOMAIN rows} = (1 .. published) \ refused
               /\ \A i, j \in DOMAIN rows : i < j => rows[i] < rows[j]
    BY <2>1, <2>2, RowsAreAll DEF Carries, HasStop
  <2>3. ASSUME dThread = "stopped"
        PROVE  dRows = [i \in 1 .. snapshots |-> i]
    BY <2>1, <2>3, DecisionRowsAreAll, FirstItems DEF DecisionsInv
  <2> QED
    BY <2>2, <2>3 DEF NothingVanishes
<1> QED
  BY <1>1, SensingInvariant, PTL

\* A row of the run that claims a drained queue and no error is about a database
\* that has every state up to the last it names.
THEOREM CleanRow ==
  ASSUME NoInterrupt
  PROVE  SensingSpec => []CleanRowIsComplete
<1>1. SensingInv => CleanRowIsComplete
  <2> SUFFICES ASSUME SensingInv, row # None, row.drained, row.errors = 0
               PROVE  rows = [i \in 1 .. row.last |-> i]
    BY DEF CleanRowIsComplete
  <2>1. Course /\ StatesInv /\ RowInv
    BY DEF SensingInv, NoInterrupt, ReportsInv
  <2>2. thread = "stopped" /\ row.last = published /\ Cardinality(refused) = 0
    BY <2>1 DEF RowInv
  <2>3. published \in Nat /\ refused \subseteq 1 .. published
    BY <2>1 DEF StatesInv, Missing
  <2>4. refused = {}
    <3>1. IsFiniteSet(1 .. published)
      BY <2>3, FS_Interval
    <3>2. IsFiniteSet(refused)
      BY <2>3, <3>1, FS_Subset
    <3> QED
      BY <2>2, <3>2, FS_EmptySet
  <2>5. (1 .. published) \ refused = 1 .. published
    BY <2>4
  <2>6. Carries(rows, 1 .. published) /\ Numbered(rows) /\ ~HasStop(rows)
    BY <2>1, <2>2, <2>4, <2>5, RowsAreAll
  <2> QED
    BY <2>2, <2>3, <2>6, FirstItems
<1> QED
  BY <1>1, SensingInvariant, PTL

\* When the script has returned, the rows tell how EnergyPlus ended and what the
\* database holds.
THEOREM RowTells ==
  ASSUME NoInterrupt
  PROVE  SensingSpec => []RowTellsOutcome
<1>1. SensingInv => RowTellsOutcome
  <2> SUFFICES ASSUME SensingInv, main = "returned" PROVE RowTellsOutcome
    BY DEF RowTellsOutcome
  <2>1. Course /\ StatesInv /\ DecisionsInv /\ RowInv /\ VerdictInv /\ Whereabouts
    BY DEF SensingInv, NoInterrupt, ReportsInv
  <2>2. ASSUME kind # "control", Faultless
        PROVE  /\ kind = "sensing" /\ row.status = "COMPLETED" => simulation = "ok"
               /\ row.persisted = Len(rows)
               /\ row.errors = Cardinality(refused)
    BY <2>1, <2>2 DEF RowInv, Whereabouts
  <2>3. ASSUME kind = "control", dRow # None
        PROVE  /\ dRow.status = "COMPLETED" => simulation = "ok"
               /\ dThread = "stopped" /\ ~callbackErrors => dRow.decisions = Len(dRows)
    <3>1. (dRow.status = "COMPLETED" => simulation = "ok") /\ dRow.decisions = published
      BY <2>1, <2>3 DEF VerdictInv
    <3>2. ASSUME dThread = "stopped", ~callbackErrors
          PROVE  published = Len(dRows)
      <4>1. published = snapshots /\ snapshots \in Nat
        BY <2>1, <2>3, <3>2 DEF DecisionsInv, Course, Waits
      <4> QED
        BY <2>1, <3>2, <4>1, DecisionRowsAreAll, FirstItems
    <3> QED
      BY <3>1, <3>2
  <2> QED
    BY <2>2, <2>3 DEF RowTellsOutcome, Faultless
<1> QED
  BY <1>1, SensingInvariant, PTL

\* What prints PASS has stored every state of the year, and what results in PASS has
\* stopped its writers and not its simulation.
THEOREM PassStored ==
  ASSUME NoInterrupt
  PROVE  SensingSpec => []PassMeansStored
<1>1. SensingInv => PassMeansStored
  <2> SUFFICES ASSUME SensingInv PROVE PassMeansStored
    OBVIOUS
  <2>1. StatesInv /\ ClosedInv /\ VerdictInv
    BY DEF SensingInv, NoInterrupt, ReportsInv
  <2>2. ASSUME verdict = "PASS", kind # "control"
        PROVE  rows = [i \in 1 .. Steps |-> i]
    <3>1. published = Steps /\ refused = {} /\ Len(rows) = Steps /\ Steps \in Nat
      BY <2>1, <2>2, RunAssumption DEF VerdictInv
    <3>2. \A i \in DOMAIN rows : rows[i] = i
      <4>1. /\ rows \in Seq(Nat) /\ batch \in Seq(Nat)
        BY <2>1, Items DEF StatesInv
      <4>2. /\ DOMAIN rows \subseteq DOMAIN (rows \o batch)
            /\ \A i \in DOMAIN rows : (rows \o batch)[i] = rows[i]
        BY <4>1, Concatenation
      <4> QED
        BY <2>1, <3>1, <4>2, NothingInvented
    <3>3. DOMAIN rows = 1 .. Steps /\ rows = [i \in DOMAIN rows |-> rows[i]]
      BY <2>1, <3>1, LenProperties DEF StatesInv
    <3> QED
      BY <3>2, <3>3
  <2> QED
    BY <2>1, <2>2 DEF PassMeansStored, ClosedInv, WritersStopped
<1> QED
  BY <1>1, SensingInvariant, PTL

=============================================================================
