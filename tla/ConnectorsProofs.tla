-------------------------- MODULE ConnectorsProofs --------------------------
(***************************************************************************)
(* Theorems about Connectors, for any number of connectors, graphs, levels *)
(* and sessions, and a stream of any length.                               *)
(***************************************************************************)
EXTENDS Connectors, PlannerProofs

(* The labels at which a pass works on a plan.                             *)
PlanLabels == Appends \cup {"observe", "begin", "apply", "stale?", "read stale", "failed?",
                            "read failed"}

(* What a pass has at hand at each of its labels; a plan is a plan of the  *)
(* accepted level.                                                         *)
ActivityOK(p) ==
  /\ pc[p] # "idle" => level[p] \in Slices
  /\ pc[p] \in PlanLabels => plan[p] \in Plans /\ plan[p].slice = level[p]
  /\ pc[p] = "bind" => plan[p].op.kind = "bind"
  /\ plan[p] # None => level[p] \in Slices /\ plan[p].slice = level[p]

(* A session that still has a client is the one its client waits for.      *)
SessionsOK ==
  \A i \in 1 .. Len(sessions) : sessions[i].client # None =>
    /\ pc[sessions[i].client] = "apply"
    /\ \A j \in 1 .. Len(sessions) : sessions[j].client = sessions[i].client => j = i

TInv ==
  /\ TypeOK
  /\ \A p \in Connectors : ActivityOK(p)
  /\ \A e \in flying : EventTyped(e)
  /\ SessionsOK

-----------------------------------------------------------------------------
(* A step of one pass that touches no session keeps everything typed.      *)
LEMMA LocalTyped ==
  ASSUME TInv, NEW p \in Connectors, pc[p] # "apply",
         NEW label \in Labels \ {"apply"}, pc' = [pc EXCEPT ![p] = label],
         NEW x \in Plans \cup {None}, plan' = [plan EXCEPT ![p] = x],
         label # "idle" => level[p] \in Slices,
         label \in PlanLabels => x \in Plans /\ x.slice = level[p],
         label = "bind" => x.op.kind = "bind",
         x # None => level[p] \in Slices /\ x.slice = level[p],
         at' \in [Connectors -> 0 .. MaxTail],
         tail' \in 0 .. MaxTail, JournalTyped(journal'),
         \A e \in flying' : EventTyped(e),
         UNCHANGED <<level, sessions, target>>
  PROVE  TInv'
<1>1. TypeOK'
  BY DEF TInv, TypeOK
<1>2. \A q \in Connectors : ActivityOK(q)'
  BY DEF TInv, TypeOK, ActivityOK
<1>3. SessionsOK'
  BY DEF TInv, TypeOK, SessionsOK
<1> QED
  BY <1>1, <1>2, <1>3 DEF TInv

(* A pass that ends forgets its place; its plan stays or goes.             *)
LEMMA EndTyped ==
  ASSUME TInv, NEW p \in Connectors, pc[p] # "apply", EndPass(p),
         NEW x \in {None, plan[p]}, Retain(p, x),
         tail' \in 0 .. MaxTail, JournalTyped(journal'),
         \A e \in flying' : EventTyped(e),
         UNCHANGED <<level, sessions, target>>
  PROVE  TInv'
<1>1. x \in Plans \cup {None} /\ (x # None => level[p] \in Slices /\ x.slice = level[p])
  BY DEF TInv, TypeOK, ActivityOK
<1>2. at' \in [Connectors -> 0 .. MaxTail]
  BY BoundsAreTyped DEF TInv, TypeOK, EndPass
<1>3. "idle" \in Labels \ {"apply"} /\ "idle" \notin PlanLabels
  BY DEF Labels, PlanLabels, Appends
<1> QED
  BY <1>1, <1>2, <1>3, LocalTyped DEF EndPass, Goto, Retain

(* The events a pass appends are well formed.                              *)
LEMMA EventIsTyped ==
  ASSUME TInv, NEW p \in Connectors, pc[p] \in Appends
  PROVE  EventTyped(Event(p))
<1>1. /\ plan[p] \in Plans /\ plan[p].slice \in Slices /\ plan[p].op \in Operations
      /\ plan[p].id \in PlanIds
  BY PlanIdsAreTails DEF TInv, ActivityOK, PlanLabels, Plans
<1>2. CASE pc[p] = "bind"
  <2>1. plan[p].op.context \in Contexts
    BY <1>1, <1>2 DEF TInv, ActivityOK, Operations
  <2>2. BindingFor(plan[p].slice, plan[p].op.context) \in Bindings
    BY <1>1, <2>1, SlicesAreTyped, ContextsAreTyped DEF BindingFor, Bindings, Resources
  <2> QED
    BY <1>2, <2>2 DEF Event, EventTyped, BindingEstablished
<1>3. CASE pc[p] # "bind"
  BY <1>1, <1>3 DEF Appends, Event, EventTyped, PlanStale, OperationStarted, OperationSucceeded,
                    OperationFailed, PlanCreated
<1> QED
  BY <1>2, <1>3

(* A record that lands keeps the stream well formed.                       *)
LEMMA LandTyped ==
  ASSUME TInv, NEW e, EventTyped(e), Land(e)
  PROVE  tail' \in 0 .. MaxTail /\ JournalTyped(journal') /\ flying' = {}
  BY AppendedTyped, BoundsAreTyped DEF TInv, TypeOK, Land

(* A session that leaves the queue leaves the others in their order.       *)
LEMMA WithoutTyped ==
  ASSUME NEW S, NEW s \in Seq(S), NEW i \in 1 .. Len(s)
  PROVE  /\ Without(s, i) \in Seq(S)
         /\ Len(Without(s, i)) = Len(s) - 1
         /\ \A j \in 1 .. Len(s) - 1 : Without(s, i)[j] = IF j < i THEN s[j] ELSE s[j + 1]
<1> DEFINE t == [j \in 1 .. Len(s) - 1 |-> IF j < i THEN s[j] ELSE s[j + 1]]
<1>1. \A j \in 1 .. Len(s) - 1 : t[j] \in S
  OBVIOUS
<1>2. t \in Seq(S) /\ Len(t) = Len(s) - 1
  BY <1>1
<1> QED
  BY <1>2 DEF Without

-----------------------------------------------------------------------------
(* The steps of a pass.                                                    *)

(* The database is asked for a level by its slice: what it tells is typed. *)
LEMMA ProposedTyped ==
  ASSUME TInv, NEW p \in Connectors, level[p] \in Slices, pc[p] # "idle", at[p] < MaxTail,
         NEW op \in First(Outstanding(level[p], seen[p].bindings, Observe(target, level[p])))
  PROVE  PlanOf(level[p], op, Observe(target, level[p]), TailAfterPlan(p)) \in Plans
<1>1. Observe(target, level[p]) \in ObservedTargets
  BY ObserveTyped DEF TInv, TypeOK
<1>2. op \in Operations
  BY <1>1, FirstTyped
<1>3. TailAfterPlan(p) \in 1 .. MaxTail
  BY BoundsAreTyped DEF TInv, TypeOK, TailAfterPlan
<1> QED
  BY <1>1, <1>2, <1>3 DEF PlanOf, Plans

(* Accepting a level, for a connector that has none.                       *)
LEMMA AcceptTyped ==
  ASSUME TInv, NEW p \in Connectors, NEW d \in Slices, Accept(p, d)
  PROVE  TInv'
<1>1. plan[p] = None /\ pc[p] = "idle"
  BY NoneIsNoValue DEF Accept, TInv, ActivityOK
<1>2. level' = [level EXCEPT ![p] = d] /\ UNCHANGED <<plan, pc, at, tail, journal, flying, sessions, target>>
  BY DEF Accept, stream, database
<1>3. TypeOK'
  BY <1>2 DEF TInv, TypeOK
<1>4. \A q \in Connectors : ActivityOK(q)'
  BY <1>1, <1>2 DEF TInv, TypeOK, ActivityOK, PlanLabels, Appends
<1>5. SessionsOK'
  BY <1>2 DEF TInv, SessionsOK
<1> QED
  BY <1>2, <1>3, <1>4, <1>5 DEF TInv

(* Reading the stream, whatever the fold says.                             *)
LEMMA LoadTyped ==
  ASSUME TInv, NEW p \in Connectors,
         CheckTail(p) \/ ReadAgain(p) \/ ReadRefused(p) \/ ReadPlan(p) \/ ReadFresh(p)
  PROVE  TInv'
<1> USE DEF stream, database, Goto
<1>0. /\ plan = [plan EXCEPT ![p] = plan[p]] /\ plan[p] \in Plans \cup {None}
      /\ at \in [Connectors -> 0 .. MaxTail] /\ tail \in 0 .. MaxTail
      /\ JournalTyped(journal) /\ ActivityOK(p)
      /\ \A e \in flying : EventTyped(e)
  BY DEF TInv, TypeOK
<1>1. CASE CheckTail(p)
  <2>1. PICK label \in {"read", "read stale", "read failed"} :
          /\ pc' = [pc EXCEPT ![p] = label]
          /\ label \in PlanLabels => pc[p] \in PlanLabels
    BY <1>1 DEF CheckTail, Loads, PlanLabels, Appends
  <2>2. at' \in [Connectors -> 0 .. MaxTail]
    BY <1>0, <1>1 DEF CheckTail
  <2>3. level[p] \in Slices
    BY <1>1 DEF CheckTail, TInv, TypeOK
  <2>4. label \in Labels \ {"apply"} /\ label # "bind" /\ pc[p] # "apply"
    BY <1>1, <2>1 DEF Labels, CheckTail, Loads
  <2> QED
    BY <1>0, <1>1, <2>1, <2>2, <2>3, <2>4, LocalTyped DEF CheckTail, ActivityOK
<1>2. CASE ReadAgain(p)
  <2>1. PICK label \in {"stale", "fail"} : pc' = [pc EXCEPT ![p] = label]
    BY <1>2 DEF ReadAgain
  <2>2. pc[p] \in PlanLabels \ {"apply"} /\ pc[p] # "idle" /\ label \in Labels \ {"apply"}
    BY <1>2, <2>1 DEF ReadAgain, Read, PlanLabels, Labels, Appends
  <2>3. UNCHANGED <<level, plan, at, tail, journal, flying, sessions, target>>
    BY <1>2 DEF ReadAgain, Read
  <2>4. /\ plan[p] \in Plans /\ level[p] \in Slices /\ plan[p].slice = level[p]
        /\ label # "bind"
    BY <1>0, <2>1, <2>2 DEF ActivityOK
  <2> QED
    BY <1>0, <2>1, <2>2, <2>3, <2>4, LocalTyped
<1>3. CASE ReadRefused(p)
  BY <1>0, <1>3, EndTyped DEF ReadRefused
<1>4. CASE ReadPlan(p)
  <2>1. PICK label \in {"stale", "observe", "bind", "start"} :
          /\ pc' = [pc EXCEPT ![p] = label]
          /\ label = "bind" => plan[p].op.kind = "bind"
    BY <1>4 DEF ReadPlan
  <2>2. pc[p] = "read" /\ plan[p] \in Plans /\ label \in Labels \ {"apply"}
    BY <1>0, <1>4, <2>1 DEF ReadPlan, Read, Labels, Appends
  <2>3. level[p] \in Slices /\ plan[p].slice = level[p]
    BY <1>0, <1>4, <2>2 DEF ReadPlan, ActivityOK
  <2>4. UNCHANGED <<level, plan, at, tail, journal, flying, sessions, target>>
    BY <1>4 DEF ReadPlan, Read
  <2> QED
    BY <1>0, <2>1, <2>2, <2>3, <2>4, LocalTyped
<1>5. CASE ReadFresh(p)
  <2>1. "plan" \in Labels \ {"apply"} /\ "plan" \notin PlanLabels
    BY DEF Labels, PlanLabels, Appends
  <2> QED
    BY <1>0, <1>5, <2>1, LocalTyped DEF ReadFresh, Read, ActivityOK
<1> QED
  BY <1>1, <1>2, <1>3, <1>4, <1>5

(* Appending, or missing the tail.                                         *)
LEMMA AppendTyped ==
  ASSUME TInv, NEW p \in Connectors, AppendLands(p) \/ AppendConflicts(p)
  PROVE  TInv'
<1> USE DEF stream, database, Goto
<1>0. /\ pc[p] \in Appends /\ pc[p] \in PlanLabels /\ pc[p] # "apply" /\ ActivityOK(p)
      /\ plan = [plan EXCEPT ![p] = plan[p]] /\ plan[p] \in Plans
      /\ tail \in 0 .. MaxTail /\ JournalTyped(journal)
      /\ \A e \in flying : EventTyped(e)
  BY DEF AppendLands, AppendConflicts, Appends, PlanLabels, TInv, TypeOK, ActivityOK
<1>1. CASE AppendConflicts(p)
  <2>1. PICK x \in {None, plan[p]} : Retain(p, x)
    BY <1>1 DEF AppendConflicts
  <2> QED
    BY <1>0, <1>1, <2>1, EndTyped DEF AppendConflicts
<1>2. CASE AppendLands(p)
  <2>1. tail' \in 0 .. MaxTail /\ JournalTyped(journal') /\ flying' = {}
    BY <1>0, <1>2, EventIsTyped, LandTyped DEF AppendLands
  <2>2. CASE pc[p] \in {"start", "bind"} /\ UNCHANGED plan
                /\ at' = [at EXCEPT ![p] = tail + 1]
                /\ Goto(p, IF pc[p] = "bind" THEN "succeed"
                           ELSE IF plan[p].op.kind = "bind" THEN "bind" ELSE "begin")
    <3>1. PICK label \in {"succeed", "bind", "begin"} :
            /\ pc' = [pc EXCEPT ![p] = label]
            /\ label = "bind" => plan[p].op.kind = "bind"
      BY <2>2
    <3>2. tail + 1 \in 0 .. MaxTail
      BY <1>0, <1>2, BoundsAreTyped DEF AppendLands, Land
    <3>3. at' \in [Connectors -> 0 .. MaxTail]
      BY <2>2, <3>2 DEF TInv, TypeOK
    <3>4. label \in Labels \ {"apply"} /\ pc[p] # "idle"
      BY <2>2, <3>1 DEF Labels, Appends
    <3> QED
      BY <1>0, <1>2, <2>1, <2>2, <3>1, <3>3, <3>4, LocalTyped DEF AppendLands, ActivityOK
  <2>3. CASE EndPass(p) /\ (UNCHANGED plan \/ Retain(p, None))
    <3>1. PICK x \in {None, plan[p]} : Retain(p, x)
      BY <1>0, <2>3 DEF Retain
    <3> QED
      BY <1>0, <1>2, <2>1, <2>3, <3>1, EndTyped DEF AppendLands
  <2> QED
    BY <1>2, <2>2, <2>3 DEF AppendLands
<1> QED
  BY <1>1, <1>2

(* Observing for a retained plan, planning, and having nothing to plan.    *)
LEMMA PlanningTyped ==
  ASSUME TInv, NEW p \in Connectors, ObserveForApply(p) \/ NothingToPlan(p) \/ Propose(p)
  PROVE  TInv'
<1> USE DEF stream, database, Goto
<1>0. /\ plan = [plan EXCEPT ![p] = plan[p]]
      /\ at \in [Connectors -> 0 .. MaxTail] /\ tail \in 0 .. MaxTail
      /\ JournalTyped(journal) /\ ActivityOK(p)
      /\ \A e \in flying : EventTyped(e)
  BY DEF TInv, TypeOK
<1>1. CASE ObserveForApply(p)
  <2>1. PICK label \in {"succeed", "begin", "start"} : pc' = [pc EXCEPT ![p] = label]
    BY <1>1 DEF ObserveForApply
  <2>2. /\ pc[p] \in PlanLabels \ {"apply"} /\ pc[p] # "idle"
        /\ label \in Labels \ {"apply"} /\ label # "bind"
    BY <1>1, <2>1 DEF ObserveForApply, PlanLabels, Labels, Appends
  <2>3. UNCHANGED <<level, plan, at, tail, journal, flying, sessions, target>>
    BY <1>1 DEF ObserveForApply
  <2>4. plan[p] \in Plans /\ level[p] \in Slices /\ plan[p].slice = level[p]
    BY <1>0, <2>2 DEF ActivityOK
  <2> QED
    BY <1>0, <2>1, <2>2, <2>3, <2>4, LocalTyped
<1>2. CASE NothingToPlan(p)
  <2>1. EndPass(p) /\ pc[p] # "apply" /\ Retain(p, plan[p])
        /\ UNCHANGED <<level, tail, journal, flying, sessions, target>>
    BY <1>0, <1>2 DEF NothingToPlan, Retain
  <2> QED
    BY <1>0, <2>1, EndTyped
<1>3. CASE Propose(p)
  <2>1. pc[p] = "plan" /\ level[p] \in Slices /\ at[p] < MaxTail
    BY <1>0, <1>3 DEF Propose, ActivityOK
  <2>2. PICK op \in First(Outstanding(level[p], seen[p].bindings, Observe(target, level[p]))) :
          Retain(p, PlanOf(level[p], op, Observe(target, level[p]), TailAfterPlan(p)))
    BY <1>3 DEF Propose
  <2> DEFINE x == PlanOf(level[p], op, Observe(target, level[p]), TailAfterPlan(p))
  <2>3. x \in Plans /\ x.slice = level[p]
    BY <2>1, <2>2, ProposedTyped DEF PlanOf
  <2>4. "propose" \in Labels \ {"apply"}
    BY DEF Labels, Appends
  <2>5. /\ pc' = [pc EXCEPT ![p] = "propose"] /\ plan' = [plan EXCEPT ![p] = x]
        /\ UNCHANGED <<level, at, tail, journal, flying, sessions, target>>
    BY <1>3, <2>2 DEF Propose, Retain
  <2> HIDE DEF x
  <2> QED
    BY <1>0, <2>1, <2>3, <2>4, <2>5, LocalTyped
<1> QED
  BY <1>1, <1>2, <1>3

-----------------------------------------------------------------------------
(* The steps of the database's sessions.                                   *)

(* What SessionsOK says of one session.                                    *)
LEMMA ClientWaits ==
  ASSUME TInv, NEW i \in 1 .. Len(sessions), sessions[i].client # None
  PROVE  /\ sessions[i].client \in Connectors
         /\ pc[sessions[i].client] = "apply"
         /\ \A j \in 1 .. Len(sessions) : sessions[j].client = sessions[i].client => j = i
<1>1. sessions[i] \in Sessions
  BY DEF TInv, TypeOK
<1> QED
  BY <1>1 DEF TInv, SessionsOK, Sessions

(* Asking for the lock: the one session of its client.                     *)
LEMMA BeginTyped == ASSUME TInv, NEW p \in Connectors, Begin(p) PROVE TInv'
<1> DEFINE s == [client |-> p, plan |-> plan[p], snapshot |-> target, stage |-> "waiting"]
<1>1. /\ pc[p] = "begin" /\ pc' = [pc EXCEPT ![p] = "apply"] /\ sessions' = Append(sessions, s)
      /\ UNCHANGED <<level, plan, at, seen, tail, journal, flying, target>>
  BY DEF Begin, Goto, stream
<1>2. s \in Sessions
  BY <1>1 DEF TInv, TypeOK, ActivityOK, PlanLabels, Sessions
<1> HIDE DEF s
<1>3. /\ sessions' \in Seq(Sessions) /\ Len(sessions') = Len(sessions) + 1
      /\ sessions'[Len(sessions) + 1] = s
      /\ \A i \in 1 .. Len(sessions) : sessions'[i] = sessions[i]
  BY <1>1, <1>2 DEF TInv, TypeOK
<1>4. TypeOK'
  BY <1>1, <1>3 DEF TInv, TypeOK, Labels
<1>5. \A q \in Connectors : ActivityOK(q)'
  BY <1>1 DEF TInv, TypeOK, ActivityOK, PlanLabels
<1>6. \A i \in 1 .. Len(sessions) : sessions[i].client # p
  BY <1>1, NoneIsNoClient DEF TInv, SessionsOK
<1>7. s.client = p
  BY DEF s
<1>8. SessionsOK'
  <2> SUFFICES ASSUME NEW i \in 1 .. Len(sessions'), sessions'[i].client # None
               PROVE  /\ pc'[sessions'[i].client] = "apply"
                      /\ \A j \in 1 .. Len(sessions') :
                           sessions'[j].client = sessions'[i].client => j = i
    BY DEF SessionsOK
  <2>0. Len(sessions) \in Nat
    BY DEF TInv, TypeOK
  <2>1. CASE i = Len(sessions) + 1
    BY <1>1, <1>3, <1>6, <1>7, <2>0, <2>1 DEF TInv, TypeOK
  <2>2. CASE i \in 1 .. Len(sessions)
    <3>1. /\ sessions[i].client \in Connectors
          /\ pc[sessions[i].client] = "apply"
          /\ \A j \in 1 .. Len(sessions) : sessions[j].client = sessions[i].client => j = i
      BY <1>3, <2>2, ClientWaits
    <3>2. pc'[sessions'[i].client] = "apply"
      BY <1>1, <1>3, <2>2, <3>1 DEF TInv, TypeOK
    <3> QED
      BY <1>3, <1>6, <1>7, <2>0, <2>2, <3>1, <3>2
  <2> QED
    BY <1>3, <2>0, <2>1, <2>2
<1> QED
  BY <1>1, <1>4, <1>5, <1>8 DEF TInv

(* A session that ends, and with it its client's wait.                     *)
LEMMA SessionEndsTyped ==
  ASSUME TInv, NEW i \in 1 .. Len(sessions), sessions' = Without(sessions, i),
         NEW label \in {"stale?", "failed?", "succeed"},
         pc' = IF sessions[i].client = None THEN pc
               ELSE [pc EXCEPT ![sessions[i].client] = label],
         target' \in TargetStates,
         UNCHANGED <<level, plan, at, tail, journal, flying>>
  PROVE  TInv'
<1>0. sessions \in Seq(Sessions) /\ Len(sessions) \in Nat
  BY DEF TInv, TypeOK
<1>1. /\ sessions' \in Seq(Sessions) /\ Len(sessions') = Len(sessions) - 1
      /\ \A j \in 1 .. Len(sessions) - 1 :
           sessions'[j] = IF j < i THEN sessions[j] ELSE sessions[j + 1]
  BY <1>0, WithoutTyped
<1>2. CASE sessions[i].client = None
  <2>1. pc' = pc
    BY <1>2
  <2>2. TypeOK'
    BY <1>1, <2>1 DEF TInv, TypeOK
  <2>3. \A q \in Connectors : ActivityOK(q)'
    BY <2>1 DEF TInv, ActivityOK
  <2>4. SessionsOK'
    <3> SUFFICES ASSUME NEW k \in 1 .. Len(sessions'), sessions'[k].client # None
                 PROVE  /\ pc'[sessions'[k].client] = "apply"
                        /\ \A j \in 1 .. Len(sessions') :
                             sessions'[j].client = sessions'[k].client => j = k
      BY DEF SessionsOK
    <3>1. PICK m \in 1 .. Len(sessions) :
            sessions'[k] = sessions[m] /\ m = IF k < i THEN k ELSE k + 1
      BY <1>0, <1>1
    <3>2. /\ pc[sessions[m].client] = "apply"
          /\ \A j \in 1 .. Len(sessions) : sessions[j].client = sessions[m].client => j = m
      BY <3>1, ClientWaits
    <3>3. pc'[sessions'[k].client] = "apply"
      BY <2>1, <3>1, <3>2
    <3>4. ASSUME NEW j \in 1 .. Len(sessions'), sessions'[j].client = sessions'[k].client
          PROVE  j = k
      <4>1. PICK n \in 1 .. Len(sessions) :
              sessions'[j] = sessions[n] /\ n = IF j < i THEN j ELSE j + 1
        BY <1>0, <1>1
      <4>2. n = m
        BY <3>1, <3>2, <3>4, <4>1
      <4> QED
        BY <1>0, <1>1, <3>1, <4>1, <4>2
    <3> QED
      BY <3>3, <3>4
  <2> QED
    BY <2>2, <2>3, <2>4 DEF TInv
<1>3. CASE sessions[i].client # None
  <2> DEFINE c == sessions[i].client
  <2>1. c \in Connectors /\ pc[c] = "apply"
    BY <1>3, ClientWaits
  <2>2. pc' = [pc EXCEPT ![c] = label]
    BY <1>3
  <2>3. \A j \in 1 .. Len(sessions) : sessions[j].client = c => j = i
    BY <1>3, ClientWaits
  <2> HIDE DEF c
  <2>4. TypeOK'
    BY <1>1, <2>1, <2>2 DEF TInv, TypeOK, Labels, Appends
  <2>5. \A q \in Connectors : ActivityOK(q)'
    BY <2>1, <2>2 DEF TInv, TypeOK, ActivityOK, PlanLabels
  <2>6. SessionsOK'
    <3> SUFFICES ASSUME NEW k \in 1 .. Len(sessions'), sessions'[k].client # None
                 PROVE  /\ pc'[sessions'[k].client] = "apply"
                        /\ \A j \in 1 .. Len(sessions') :
                             sessions'[j].client = sessions'[k].client => j = k
      BY DEF SessionsOK
    <3>1. PICK m \in 1 .. Len(sessions) : /\ sessions'[k] = sessions[m] /\ m # i
                                          /\ m = IF k < i THEN k ELSE k + 1
      BY <1>0, <1>1
    <3>2. /\ sessions[m].client \in Connectors /\ pc[sessions[m].client] = "apply"
          /\ sessions[m].client # c
          /\ \A n \in 1 .. Len(sessions) : sessions[n].client = sessions[m].client => n = m
      BY <2>3, <3>1, ClientWaits
    <3>3. pc'[sessions'[k].client] = "apply"
      BY <2>2, <3>1, <3>2 DEF TInv, TypeOK
    <3>4. ASSUME NEW j \in 1 .. Len(sessions'), sessions'[j].client = sessions'[k].client
          PROVE  j = k
      <4>1. PICK n \in 1 .. Len(sessions) : /\ sessions'[j] = sessions[n]
                                            /\ n = IF j < i THEN j ELSE j + 1
        BY <1>0, <1>1
      <4>2. n = m
        BY <3>1, <3>2, <3>4, <4>1
      <4> QED
        BY <1>0, <1>1, <3>1, <4>1, <4>2
    <3> QED
      BY <3>3, <3>4
  <2> QED
    BY <2>4, <2>5, <2>6 DEF TInv
<1> QED
  BY <1>2, <1>3

(* The turn of a session at the advisory lock.                             *)
LEMMA TurnTyped == ASSUME TInv, NEW i \in 1 .. MaxSessions, Turn(i) PROVE TInv'
<1> USE DEF stream, database
<1>0. i \in 1 .. Len(sessions) /\ sessions[i] \in Sessions /\ target \in TargetStates
  BY DEF Turn, TurnIsStale, TurnIsRefused, TurnExecutes, Commits, CommitFails, Committing,
         OrphanEnds, Waiting, TInv, TypeOK
<1>1. CASE TurnIsStale(i)
  BY <1>0, <1>1, SessionEndsTyped DEF TurnIsStale, Waiting, Goto
<1>2. CASE TurnIsRefused(i)
  BY <1>0, <1>2, SessionEndsTyped DEF TurnIsRefused, Waiting, Goto
<1>3. CASE TurnExecutes(i)
  <2> DEFINE s == [sessions[i] EXCEPT !.stage = "committing"]
  <2>1. s \in Sessions /\ s.client = sessions[i].client
    BY <1>0 DEF Sessions
  <2>2. sessions' = [sessions EXCEPT ![i] = s]
    BY <1>3 DEF TurnExecutes
  <2> HIDE DEF s
  <2>3. /\ sessions' \in Seq(Sessions) /\ Len(sessions') = Len(sessions)
        /\ \A j \in 1 .. Len(sessions) : sessions'[j].client = sessions[j].client
    BY <1>0, <2>1, <2>2 DEF TInv, TypeOK
  <2>4. SessionsOK'
    BY <1>3, <2>3 DEF TurnExecutes, TInv, SessionsOK
  <2> QED
    BY <1>3, <2>3, <2>4 DEF TurnExecutes, TInv, TypeOK, ActivityOK
<1>4. CASE Commits(i)
  <2>1. target' \in TargetStates
    BY <1>0, <1>4, ExecuteTyped DEF Commits, Sessions, Plans
  <2> QED
    BY <1>0, <1>4, <2>1, SessionEndsTyped DEF Commits, Answer, Goto
<1>5. CASE OrphanEnds(i)
  BY <1>0, <1>5, SessionEndsTyped DEF OrphanEnds
<1>6. CASE CommitFails(i)
  BY <1>0, <1>6, SessionEndsTyped DEF CommitFails, Answer, Goto
<1> QED
  BY <1>1, <1>2, <1>3, <1>4, <1>5, <1>6 DEF Turn

-----------------------------------------------------------------------------
(* What outlives a pass.                                                   *)

(* A late append touches the stream only.                                  *)
LEMMA LandsLateTyped == ASSUME TInv, LandsLate PROVE TInv'
<1>1. PICK e \in flying : Land(e) /\ UNCHANGED <<level, plan, pc, at, seen, database>>
  BY DEF LandsLate
<1>2. tail' \in 0 .. MaxTail /\ JournalTyped(journal') /\ flying' = {}
  BY <1>1, LandTyped DEF TInv
<1> QED
  BY <1>1, <1>2 DEF TInv, TypeOK, ActivityOK, SessionsOK, database

(* An abandoned pass leaves its append and its session behind.             *)
LEMMA AbandonTyped == ASSUME TInv, NEW p \in Connectors, Abandon(p) PROVE TInv'
<1> DEFINE left(s) == IF s.client = p THEN [s EXCEPT !.client = None] ELSE s
<1>1. /\ sessions' = [i \in DOMAIN sessions |-> left(sessions[i])]
      /\ pc' = [pc EXCEPT ![p] = "idle"] /\ at' = [at EXCEPT ![p] = 0]
      /\ UNCHANGED <<level, tail, journal, target>>
  BY DEF Abandon, EndPass, Goto
<1>2. PICK x \in {None, plan[p]} : plan' = [plan EXCEPT ![p] = x]
  BY DEF Abandon, Retain
<1>10. /\ plan' \in [Connectors -> Plans \cup {None}]
      /\ pc' \in [Connectors -> Labels]
      /\ at' \in [Connectors -> 0 .. MaxTail]
  <2>1. x \in Plans \cup {None}
    BY DEF TInv, TypeOK
  <2>2. 0 \in 0 .. MaxTail
    BY BoundsAreTyped
  <2>3. "idle" \in Labels
    BY DEF Labels
  <2> QED
    BY <1>1, <1>2, <2>1, <2>2, <2>3 DEF TInv, TypeOK
<1>3. \A e \in flying' : EventTyped(e)
  BY EventIsTyped DEF Abandon, TInv
<1>4. sessions \in Seq(Sessions)
  BY DEF TInv, TypeOK
<1>5. ASSUME NEW i \in 1 .. Len(sessions)
      PROVE  /\ left(sessions[i]) \in Sessions
             /\ left(sessions[i]).client # p
             /\ left(sessions[i]).client # None => left(sessions[i]).client = sessions[i].client
  <2>1. sessions[i] \in Sessions
    BY <1>4
  <2> QED
    BY <2>1, NoneIsNoClient DEF Sessions
<1> HIDE DEF left
<1>6. /\ sessions' \in Seq(Sessions) /\ Len(sessions') = Len(sessions)
      /\ \A i \in 1 .. Len(sessions) : sessions'[i] = left(sessions[i])
  BY <1>1, <1>4, <1>5
<1>7. TypeOK'
  BY <1>1, <1>10, <1>6 DEF TInv, TypeOK
<1>8. \A q \in Connectors : ActivityOK(q)'
  BY <1>1, <1>2 DEF TInv, TypeOK, ActivityOK, PlanLabels, Appends
<1>9. SessionsOK'
  <2> SUFFICES ASSUME NEW i \in 1 .. Len(sessions'), sessions'[i].client # None
               PROVE  /\ pc'[sessions'[i].client] = "apply"
                      /\ \A j \in 1 .. Len(sessions') :
                           sessions'[j].client = sessions'[i].client => j = i
    BY DEF SessionsOK
  <2>1. i \in 1 .. Len(sessions) /\ sessions'[i].client = sessions[i].client
        /\ sessions[i].client # p
    BY <1>5, <1>6
  <2>2. /\ sessions[i].client \in Connectors /\ pc[sessions[i].client] = "apply"
        /\ \A j \in 1 .. Len(sessions) : sessions[j].client = sessions[i].client => j = i
    BY <2>1, ClientWaits
  <2>3. pc'[sessions'[i].client] = "apply"
    BY <1>1, <2>1, <2>2 DEF TInv, TypeOK
  <2> QED
    BY <1>5, <1>6, <2>1, <2>2, <2>3
<1> QED
  BY <1>3, <1>7, <1>8, <1>9 DEF TInv

(* The initial states, and every step.                                     *)
LEMMA InitTyped == ASSUME Init PROVE TInv
<1>1. TypeOK
  BY BoundsAreTyped, TargetsAreTyped
     DEF Init, TypeOK, Labels, JournalTyped, EmptyJournal
<1> QED
  BY <1>1 DEF Init, TInv, ActivityOK, PlanLabels, Appends, SessionsOK

(* Every step keeps the types and what each label has at hand.             *)
LEMMA NextTyped == ASSUME TInv, [Next]_vars PROVE TInv'
<1>1. CASE UNCHANGED vars
  BY <1>1 DEF vars, stream, database, TInv, TypeOK, ActivityOK, SessionsOK
<1>2. ASSUME NEW p \in Connectors, PassStep(p) PROVE TInv'
  BY <1>2, AcceptTyped, LoadTyped, AppendTyped, PlanningTyped, BeginTyped DEF PassStep
<1>3. ASSUME NEW p \in Connectors, Abandon(p) PROVE TInv'
  BY <1>3, AbandonTyped
<1>4. ASSUME NEW i \in 1 .. MaxSessions, Turn(i) PROVE TInv'
  BY <1>4, TurnTyped
<1> QED
  BY <1>1, <1>2, <1>3, <1>4, LandsLateTyped DEF Next

(* The types and what each label has at hand hold throughout.              *)
LEMMA TypedInvariant == Spec => []TInv
<1>1. Init => TInv
  BY InitTyped
<1>2. TInv /\ [Next]_vars => TInv'
  BY NextTyped
<1> QED
  BY <1>1, <1>2, PTL DEF Spec

(* Every variable keeps its shape, and with TInv every pass has at its     *)
(* label the level and the plan that the code unwraps there.               *)
THEOREM TypeCorrect == Spec => []TypeOK
<1>1. TInv => TypeOK
  BY DEF TInv
<1> QED
  BY <1>1, TypedInvariant, PTL

-----------------------------------------------------------------------------
(* The stream and its readers *)

(* The labels at which a pass has folded the stream.                       *)
Loaded == Appends \cup {"plan", "observe", "begin", "apply"}

(* A pass that expects the tail has folded the whole stream; a retained    *)
(* plan's record has landed, and the one about to be appended is next.     *)
StreamOK(p) ==
  /\ at[p] <= tail
  /\ pc[p] \in Loaded /\ at[p] = tail => seen[p] = Fold(journal)
  /\ pc[p] = "propose" => plan[p].id = at[p] + 1
  /\ plan[p] # None /\ pc[p] # "propose" =>
       plan[p].id <= tail /\ (plan[p].id = tail => journal.fence = tail)

SInv ==
  /\ TInv
  /\ DOMAIN seen = Connectors
  /\ \A p \in Connectors : StreamOK(p)
  /\ journal.fence \in {None, tail}
  /\ tail = 0 => journal = EmptyJournal
  /\ \A e \in flying : e.kind = "PlanCreated" => e.plan = tail + 1

(* The last record is the fence exactly when it creates a plan.            *)
LEMMA AppendedFence ==
  ASSUME NEW j, JournalTyped(j), NEW e, EventTyped(e)
  PROVE  Appended(j, e).fence = IF e.kind = "PlanCreated" THEN e.plan ELSE None
<1>1. CASE e.kind = "PlanCreated"
  BY <1>1 DEF JournalTyped, Appended
<1>2. CASE e.kind = "PlanStale"
  BY <1>2 DEF JournalTyped, Appended
<1>3. CASE e.kind = "BindingEstablished"
  BY <1>3 DEF JournalTyped, Appended
<1>4. CASE e.kind = "GraphReleased"
  BY <1>4 DEF JournalTyped, Appended
<1>5. CASE e.kind \in {"Started", "Succeeded", "Failed"}
  <2> DEFINE operations == Receipt(j.operations, e.operation, ReceiptOf(e))
  <2>1. Appended(j, e) = [j EXCEPT !.operations = operations, !.fence = None]
    BY <1>5 DEF JournalTyped, Appended
  <2> HIDE DEF operations
  <2> QED
    BY <1>5, <2>1 DEF JournalTyped
<1> QED
  BY <1>1, <1>2, <1>3, <1>4, <1>5 DEF EventTyped

(* After a record lands, no other pass expects the new tail, and no plan   *)
(* retained before is the fence.                                           *)
LEMMA LandOrdered ==
  ASSUME SInv, NEW e, EventTyped(e), e.kind = "PlanCreated" => e.plan = tail + 1, Land(e)
  PROVE  /\ tail' = tail + 1 /\ flying' = {}
         /\ journal'.fence = (IF e.kind = "PlanCreated" THEN tail' ELSE None)
         /\ \A q \in Connectors :
              plan'[q] = plan[q] /\ pc'[q] = pc[q] /\ at'[q] = at[q] => StreamOK(q)'
<1>1. tail' = tail + 1 /\ flying' = {} /\ journal' = Appended(journal, e)
  BY DEF Land
<1>2. journal'.fence = (IF e.kind = "PlanCreated" THEN tail' ELSE None)
  BY <1>1, AppendedFence DEF SInv, TInv, TypeOK
<1>3. ASSUME NEW q \in Connectors, plan'[q] = plan[q], pc'[q] = pc[q], at'[q] = at[q]
      PROVE  StreamOK(q)'
  <2>1. at[q] \in Nat /\ tail \in Nat /\ at[q] <= tail /\ StreamOK(q)
    BY DEF SInv, TInv, TypeOK, StreamOK
  <2>2. plan[q] # None => plan[q].id \in Nat
    BY DEF SInv, TInv, TypeOK, Plans
  <2> QED
    BY <1>1, <1>3, <2>1, <2>2 DEF StreamOK
<1> QED
  BY <1>1, <1>2, <1>3

(* A step of one pass leaves every other pass where it is, and the stream  *)
(* as it is unless its append lands.                                       *)
LEMMA Footprint ==
  ASSUME SInv, NEW p \in Connectors, PassStep(p) \/ Abandon(p)
  PROVE  /\ \A q \in Connectors \ {p} :
              /\ plan'[q] = plan[q] /\ pc'[q] = pc[q] /\ at'[q] = at[q] /\ seen'[q] = seen[q]
              /\ level'[q] = level[q]
         /\ DOMAIN seen' = Connectors
         /\ AppendLands(p) \/ UNCHANGED <<tail, journal>>
         /\ Abandon(p) \/ AppendLands(p) \/ UNCHANGED flying
<1> USE DEF SInv, TInv, TypeOK, stream, database, Goto, EndPass, Retain
<1>1. CASE \E d \in Slices : Accept(p, d)
  BY <1>1 DEF Accept
<1>2. CASE CheckTail(p)
  BY <1>2 DEF CheckTail
<1>3. CASE ReadAgain(p) \/ ReadRefused(p) \/ ReadPlan(p) \/ ReadFresh(p)
  BY <1>3 DEF ReadAgain, ReadRefused, ReadPlan, ReadFresh, Read
<1>4. CASE AppendLands(p)
  BY <1>4 DEF AppendLands
<1>5. CASE AppendConflicts(p)
  BY <1>5 DEF AppendConflicts
<1>6. CASE ObserveForApply(p) \/ NothingToPlan(p) \/ Begin(p)
  BY <1>6 DEF ObserveForApply, NothingToPlan, Begin
<1>7. CASE Propose(p)
  BY <1>7 DEF Propose
<1>8. CASE Abandon(p)
  BY <1>8 DEF Abandon
<1> QED
  BY <1>1, <1>2, <1>3, <1>4, <1>5, <1>6, <1>7, <1>8 DEF PassStep

(* What a pass does with the stream keeps it where StreamOK says.          *)
LEMMA PassKeepsStream ==
  ASSUME SInv, NEW p \in Connectors, PassStep(p) \/ Abandon(p), ~AppendLands(p)
  PROVE  StreamOK(p)'
<1> USE DEF stream, database, Goto
<1>0. /\ UNCHANGED <<tail, journal>> /\ tail \in Nat /\ at[p] \in Nat /\ StreamOK(p)
      /\ p \in DOMAIN seen /\ p \in DOMAIN at /\ p \in DOMAIN pc /\ p \in DOMAIN plan
  BY Footprint DEF SInv, TInv, TypeOK
<1>1. CASE \E d \in Slices : Accept(p, d)
  BY <1>0, <1>1 DEF Accept, StreamOK
<1>2. CASE CheckTail(p)
  <2>1. at'[p] = tail /\ plan' = plan /\ pc[p] # "propose" /\ pc'[p] # "propose"
    BY <1>0, <1>2 DEF CheckTail, Loads
  <2>2. pc'[p] \notin Loaded
    BY <1>0, <1>2 DEF CheckTail, Loads, Loaded, Appends
  <2> QED
    BY <1>0, <2>1, <2>2 DEF StreamOK
<1>3. CASE ReadAgain(p) \/ ReadPlan(p) \/ ReadFresh(p)
  <2>1. seen'[p] = Fold(Records(p)) /\ at' = at /\ plan' = plan /\ pc[p] # "propose"
        /\ pc'[p] # "propose"
    BY <1>0, <1>3 DEF ReadAgain, ReadPlan, ReadFresh, Read
  <2>2. at[p] = tail => Records(p) = journal
    BY DEF SInv, Records
  <2> QED
    BY <1>0, <2>1, <2>2 DEF StreamOK, Fold
<1>4. CASE ReadRefused(p) \/ AppendConflicts(p) \/ NothingToPlan(p) \/ Abandon(p)
  <2>1. at'[p] = 0 /\ pc'[p] = "idle"
    BY <1>0, <1>4 DEF ReadRefused, AppendConflicts, NothingToPlan, Abandon, EndPass
  <2>2. plan'[p] = None \/ (plan'[p] = plan[p] /\ pc[p] # "propose")
    BY <1>0, <1>4 DEF ReadRefused, AppendConflicts, NothingToPlan, Abandon, Retain
  <2> QED
    BY <1>0, <2>1, <2>2 DEF StreamOK, Loaded, Appends
<1>5. CASE ObserveForApply(p) \/ Begin(p)
  BY <1>0, <1>5 DEF ObserveForApply, Begin, StreamOK, Loaded, Appends
<1>6. CASE Propose(p)
  <2>1. pc[p] = "plan" /\ pc'[p] = "propose" /\ at' = at /\ seen' = seen
        /\ plan'[p].id = TailAfterPlan(p)
    BY <1>0, <1>6 DEF Propose, Retain, PlanOf
  <2> QED
    BY <1>0, <2>1 DEF StreamOK, Loaded, TailAfterPlan
<1> QED
  BY <1>1, <1>2, <1>3, <1>4, <1>5, <1>6 DEF PassStep

(* A record that lands at the tail is the next one its writer has folded.  *)
LEMMA AppendKeepsStream ==
  ASSUME SInv, NEW p \in Connectors, AppendLands(p)
  PROVE  SInv'
<1> USE DEF stream, database, Goto
<1>0. /\ tail \in Nat /\ at[p] = tail /\ StreamOK(p) /\ pc[p] \in Appends /\ plan[p] \in Plans
      /\ p \in DOMAIN seen /\ p \in DOMAIN at /\ p \in DOMAIN pc /\ p \in DOMAIN plan
  <2>1. pc[p] \in Appends /\ at[p] = tail
    BY DEF AppendLands, Matches
  <2>2. plan[p] \in Plans
    BY <2>1 DEF SInv, TInv, ActivityOK, PlanLabels
  <2> QED
    BY <2>1, <2>2 DEF SInv, TInv, TypeOK
<1>1. EventTyped(Event(p)) /\ Land(Event(p))
  BY EventIsTyped DEF AppendLands, SInv
<1>2. (Event(p).kind = "PlanCreated" <=> pc[p] = "propose")
      /\ (pc[p] = "propose" => Event(p).plan = plan[p].id)
  BY <1>0 DEF Appends, Event, PlanStale, OperationStarted, BindingEstablished,
              OperationSucceeded, OperationFailed, PlanCreated
<1>3. pc[p] = "propose" => plan[p].id = tail + 1
  BY <1>0 DEF StreamOK
<1>4. /\ tail' = tail + 1 /\ flying' = {}
      /\ journal'.fence = (IF pc[p] = "propose" THEN tail' ELSE None)
      /\ \A q \in Connectors :
           plan'[q] = plan[q] /\ pc'[q] = pc[q] /\ at'[q] = at[q] => StreamOK(q)'
  BY <1>1, <1>2, <1>3, LandOrdered
<1>5. \A q \in Connectors \ {p} : StreamOK(q)'
  BY <1>4, Footprint DEF PassStep
<1>6. StreamOK(p)'
  <2>0. plan[p].id \in Nat
    BY <1>0 DEF Plans
  <2>1. CASE pc[p] \in {"start", "bind"}
    <3>1. at'[p] = tail + 1 /\ seen'[p] = Fold(journal') /\ plan' = plan /\ pc'[p] # "propose"
      BY <1>0, <1>1, <2>1 DEF AppendLands, Land
    <3>2. plan[p] # None => plan[p].id <= tail
      BY <1>0, <2>1 DEF StreamOK
    <3>3. /\ at'[p] <= tail'
          /\ plan'[p] # None => plan'[p].id <= tail' /\ plan'[p].id # tail'
      BY <1>0, <1>4, <2>0, <3>1, <3>2
    <3> QED
      BY <3>1, <3>3 DEF StreamOK
  <2>2. CASE pc[p] \notin {"start", "bind"}
    <3>1. at'[p] = 0 /\ pc'[p] = "idle"
          /\ (plan'[p] = None \/ (pc[p] = "propose" /\ plan'[p] = plan[p]))
      BY <1>0, <2>2 DEF AppendLands, EndPass, Retain
    <3>2. plan'[p] # None => plan'[p].id = tail' /\ journal'.fence = tail'
      BY <1>3, <1>4, <3>1
    <3>3. at'[p] <= tail' /\ pc'[p] \notin Loaded /\ pc'[p] # "propose" /\ tail' \in Nat
      BY <1>0, <1>4, <3>1 DEF Loaded, Appends
    <3> QED
      BY <3>2, <3>3 DEF StreamOK
  <2> QED
    BY <2>1, <2>2
<1>7. TInv' /\ DOMAIN seen' = Connectors
  BY AppendTyped, Footprint DEF SInv, PassStep
<1>8. journal'.fence \in {None, tail'} /\ tail' # 0
  BY <1>0, <1>4
<1> QED
  BY <1>4, <1>5, <1>6, <1>7, <1>8 DEF SInv

(* A turn only tells its client how the transaction ended.                 *)
LEMMA TurnTells ==
  ASSUME TInv, NEW i \in 1 .. MaxSessions, Turn(i)
  PROVE  /\ UNCHANGED <<level, plan, at, seen, stream>>
         /\ \A q \in Connectors :
              \/ pc'[q] = pc[q]
              \/ pc[q] = "apply" /\ pc'[q] \in {"stale?", "failed?", "succeed"}
<1> USE DEF Goto, stream
<1>0. i \in 1 .. Len(sessions)
  BY DEF Turn, TurnIsStale, TurnIsRefused, TurnExecutes, Commits, CommitFails, Committing,
         OrphanEnds, Waiting
<1>1. CASE TurnExecutes(i) \/ OrphanEnds(i)
  BY <1>1 DEF TurnExecutes, OrphanEnds
<1>2. CASE /\ sessions[i].client # None
           /\ TurnIsStale(i) \/ TurnIsRefused(i) \/ Commits(i) \/ CommitFails(i)
  <2>1. sessions[i].client \in Connectors /\ pc[sessions[i].client] = "apply"
    BY <1>0, <1>2, ClientWaits
  <2>2. PICK label \in {"stale?", "failed?", "succeed"} :
          pc' = [pc EXCEPT ![sessions[i].client] = label]
    BY <1>2 DEF TurnIsStale, TurnIsRefused, Commits, CommitFails, Answer
  <2> QED
    BY <1>2, <2>1, <2>2 DEF TurnIsStale, TurnIsRefused, Commits, CommitFails, TInv, TypeOK
<1>3. CASE sessions[i].client = None /\ (Commits(i) \/ CommitFails(i))
  BY <1>3 DEF Commits, CommitFails, Answer
<1> QED
  BY <1>1, <1>2, <1>3 DEF Turn, TurnIsStale, TurnIsRefused, Waiting

(* Every step keeps the stream and its readers in order.                   *)
LEMMA NextKeepsStream == ASSUME SInv, [Next]_vars PROVE SInv'
<1>0. TInv'
  BY NextTyped DEF SInv
<1>1. CASE UNCHANGED vars
  BY <1>0, <1>1 DEF vars, stream, database, SInv, StreamOK
<1>2. ASSUME NEW p \in Connectors, PassStep(p) \/ Abandon(p), ~AppendLands(p)
      PROVE  SInv'
  <2>1. /\ UNCHANGED <<tail, journal>> /\ DOMAIN seen' = Connectors
        /\ \A q \in Connectors \ {p} : /\ plan'[q] = plan[q] /\ pc'[q] = pc[q]
                                       /\ at'[q] = at[q] /\ seen'[q] = seen[q]
    BY <1>2, Footprint
  <2>2. \A q \in Connectors : StreamOK(q)'
    BY <1>2, <2>1, PassKeepsStream DEF SInv, StreamOK
  <2>3. \A e \in flying' : e.kind = "PlanCreated" => e.plan = tail + 1
    <3>1. CASE UNCHANGED flying
      BY <3>1 DEF SInv
    <3>2. CASE flying' = flying \cup {Event(p)} /\ pc[p] \in Appends /\ Matches(at[p])
      <4>1. Event(p).kind = "PlanCreated" => pc[p] = "propose" /\ Event(p).plan = plan[p].id
        BY <3>2 DEF Appends, Event, PlanStale, OperationStarted, BindingEstablished,
                    OperationSucceeded, OperationFailed, PlanCreated
      <4> QED
        BY <3>2, <4>1 DEF SInv, StreamOK, Matches
    <3> QED
      BY <1>2, <3>1, <3>2, Footprint DEF Abandon
  <2> QED
    BY <1>0, <2>1, <2>2, <2>3 DEF SInv
<1>3. ASSUME NEW p \in Connectors, AppendLands(p) PROVE SInv'
  BY <1>3, AppendKeepsStream
<1>4. CASE LandsLate
  <2>1. PICK e \in flying : Land(e) /\ UNCHANGED <<level, plan, pc, at, seen, database>>
    BY <1>4 DEF LandsLate
  <2>2. EventTyped(e) /\ (e.kind = "PlanCreated" => e.plan = tail + 1)
    BY <2>1 DEF SInv, TInv
  <2>3. tail' = tail + 1 /\ tail' # 0
    BY <2>1, <2>2, LandOrdered DEF SInv, TInv, TypeOK
  <2> QED
    BY <1>0, <2>1, <2>2, <2>3, LandOrdered DEF SInv
<1>5. ASSUME NEW i \in 1 .. MaxSessions, Turn(i) PROVE SInv'
  <2>1. /\ UNCHANGED <<plan, at, seen, tail, journal, flying>>
        /\ \A q \in Connectors :
             \/ pc'[q] = pc[q]
             \/ pc[q] = "apply" /\ pc'[q] \in {"stale?", "failed?", "succeed"}
    BY <1>5, TurnTells DEF SInv, stream
  <2> QED
    BY <1>0, <2>1 DEF SInv, StreamOK, Loaded
<1> QED
  BY <1>1, <1>2, <1>3, <1>4, <1>5 DEF Next

(* An empty stream has been folded by nobody.                              *)
LEMMA InitHasStream == ASSUME Init PROVE SInv
  BY InitTyped DEF Init, SInv, StreamOK, Loaded, Appends, EmptyJournal

(* Folds and expected tails agree with the stream throughout.              *)
LEMMA StreamInvariant == Spec => []SInv
<1>1. Init => SInv
  BY InitHasStream
<1>2. SInv /\ [Next]_vars => SInv'
  BY NextKeepsStream
<1> QED
  BY <1>1, <1>2, PTL DEF Spec

(* However many connectors append and however late their appends land,     *)
(* comparing a plan's tail with the stream's, as the code does, is asking  *)
(* whether the plan's own record is the last one, as Reconciler does.      *)
THEOREM FenceCorrect == Spec => []FenceIsTheTail
<1>1. SInv => FenceIsTheTail
  <2> SUFFICES ASSUME SInv, NEW p \in Connectors, plan[p] # None, pc[p] # "propose"
               PROVE  plan[p].id = tail <=> journal.fence = plan[p].id
    BY DEF FenceIsTheTail
  <2>1. plan[p].id \in PlanIds
    BY PlanIdsAreTails DEF SInv, TInv, TypeOK, Plans
  <2> QED
    BY <2>1, NoneIsNoPlanId DEF SInv, StreamOK
<1> QED
  BY <1>1, StreamInvariant, PTL

(* A record that a connector appends follows exactly the records it has    *)
(* folded, although it reads the tail and the records in two calls.        *)
THEOREM ExtendsCorrect == Spec => ExtendsWhatItSaw
<1>1. SInv /\ [Next]_vars =>
        [\A p \in Connectors : AppendLands(p) => seen[p] = Fold(journal)]_vars
  BY DEF SInv, StreamOK, AppendLands, Matches, Loaded
<1> QED
  BY <1>1, StreamInvariant, PTL DEF Spec, ExtendsWhatItSaw

-----------------------------------------------------------------------------
(* One owner *)

(* The labels between the ownership check and the binding.                 *)
Claiming == {"observe", "start", "bind"}

(* A pass that may still bind has folded only bindings of its own graph,   *)
(* and so has one whose abandoned binding may still land.                  *)
ClaimOK(p) == pc[p] \in Claiming => \A b \in seen[p].bindings : b.graph = level[p].graph

OInv ==
  /\ SInv
  /\ \A p \in Connectors : ClaimOK(p)
  /\ \A e \in flying : e.kind # "GraphReleased"
  /\ \A e \in flying : e.kind = "BindingEstablished" =>
       \A b \in journal.bindings : b.graph = e.binding.graph
  /\ ExclusiveOwner

(* A claim that lands where it was checked leaves one owner.               *)
LEMMA LandKeepsOwner ==
  ASSUME OInv, NEW e, EventTyped(e), Land(e), e.kind # "GraphReleased",
         e.kind = "BindingEstablished" =>
           \A b \in journal.bindings : b.graph = e.binding.graph
  PROVE  ExclusiveOwner'
<1>1. JournalTyped(journal) /\ journal' = Appended(journal, e)
  BY DEF Land, OInv, SInv, TInv, TypeOK
<1>2. CASE e.kind = "BindingEstablished"
  <2>1. journal'.bindings = Claim(journal.bindings, e.binding)
    BY <1>1, <1>2, AppendedBindings
  <2> QED
    BY <1>2, <2>1 DEF Claim, ExclusiveOwner
<1>3. CASE e.kind \in {"PlanCreated", "PlanStale", "Started", "Succeeded", "Failed"}
  BY <1>1, <1>3, AppendedBindings DEF OInv, ExclusiveOwner
<1> QED
  BY <1>2, <1>3 DEF EventTyped

(* The events a pass appends claim for its own graph only.                 *)
LEMMA EventClaims ==
  ASSUME OInv, NEW p \in Connectors, pc[p] \in Appends
  PROVE  /\ EventTyped(Event(p)) /\ Event(p).kind # "GraphReleased"
         /\ Event(p).kind = "BindingEstablished" =>
              pc[p] = "bind" /\ Event(p).binding.graph = level[p].graph
         /\ at[p] = tail /\ Event(p).kind = "BindingEstablished" =>
              \A b \in journal.bindings : b.graph = Event(p).binding.graph
<1>1. EventTyped(Event(p))
  BY EventIsTyped DEF OInv, SInv
<1>2. CASE pc[p] = "bind"
  <2>1. plan[p].slice = level[p]
    BY <1>2 DEF OInv, SInv, TInv, ActivityOK, PlanLabels, Appends
  <2>2. Event(p) = BindingEstablished(BindingFor(plan[p].slice, plan[p].op.context))
    BY <1>2 DEF Event
  <2>3. Event(p).kind = "BindingEstablished" /\ Event(p).binding.graph = level[p].graph
    BY <2>1, <2>2 DEF BindingEstablished, BindingFor
  <2>4. at[p] = tail => \A b \in journal.bindings : b.graph = level[p].graph
    BY <1>2 DEF OInv, SInv, StreamOK, Loaded, Appends, ClaimOK, Claiming, Fold
  <2> QED
    BY <1>1, <1>2, <2>3, <2>4
<1>3. CASE pc[p] # "bind"
  BY <1>1, <1>3 DEF Appends, Event, PlanStale, OperationStarted, OperationSucceeded,
                    OperationFailed, PlanCreated
<1> QED
  BY <1>2, <1>3

(* A pass that goes on to claim has just checked, or has seen nothing new. *)
LEMMA PassKeepsClaims ==
  ASSUME OInv, NEW p \in Connectors, PassStep(p) \/ Abandon(p)
  PROVE  ClaimOK(p)'
<1> USE DEF stream, database, Goto
<1>0. /\ p \in DOMAIN seen /\ p \in DOMAIN pc /\ p \in DOMAIN level /\ ClaimOK(p)
  BY DEF OInv, SInv, TInv, TypeOK
<1>1. CASE pc'[p] \notin Claiming
  BY <1>1 DEF ClaimOK
<1>2. CASE ReadPlan(p)
  <2>1. /\ ~TargetOwned(level[p], Records(p).bindings)
        /\ seen'[p] = Fold(Records(p)) /\ level' = level
    BY <1>0, <1>2 DEF ReadPlan, Read, DesiredIsRefused
  <2> QED
    BY <2>1 DEF TargetOwned, ClaimOK, Fold
<1>3. CASE ObserveForApply(p)
  BY <1>0, <1>3 DEF ObserveForApply, ClaimOK, Claiming
<1>4. CASE AppendLands(p) /\ pc[p] \in {"start", "bind"}
  <2>1. seen'[p] = Fold(journal') /\ level' = level
    BY <1>0, <1>4 DEF AppendLands, Land
  <2>2. CASE pc[p] = "start"
    <3>1. journal' = Appended(journal, OperationStarted(plan[p].id, plan[p].op))
      BY <1>4, <2>2 DEF AppendLands, Land, Event
    <3>2. journal'.bindings = journal.bindings
      BY <3>1, AppendedBindings DEF OperationStarted, OInv, SInv, TInv, TypeOK
    <3>3. seen[p] = Fold(journal)
      BY <1>4, <2>2 DEF AppendLands, Matches, OInv, SInv, StreamOK, Loaded, Appends
    <3> QED
      BY <1>0, <2>1, <2>2, <3>2, <3>3 DEF ClaimOK, Claiming, Fold
  <2>3. CASE pc[p] = "bind"
    BY <1>0, <1>1, <1>4, <2>3 DEF AppendLands, Claiming
  <2> QED
    BY <1>4, <2>2, <2>3
<1>5. CASE AppendLands(p) /\ pc[p] \notin {"start", "bind"}
  BY <1>0, <1>1, <1>5 DEF AppendLands, EndPass, Claiming
<1>6. CASE ReadRefused(p) \/ AppendConflicts(p) \/ NothingToPlan(p) \/ Abandon(p)
  BY <1>0, <1>1, <1>6 DEF ReadRefused, AppendConflicts, NothingToPlan, Abandon, EndPass, Claiming
<1>7. CASE CheckTail(p) \/ ReadAgain(p) \/ ReadFresh(p) \/ Propose(p) \/ Begin(p)
  BY <1>0, <1>1, <1>7 DEF CheckTail, Loads, ReadAgain, ReadFresh, Read, Propose, Begin, Claiming
<1>8. CASE \E d \in Slices : Accept(p, d)
  <2>1. pc[p] = "idle"
    BY <1>8, NoneIsNoValue DEF Accept, OInv, SInv, TInv, ActivityOK
  <2> QED
    BY <1>1, <1>8, <2>1 DEF Accept, Claiming
<1> QED
  BY <1>2, <1>3, <1>4, <1>5, <1>6, <1>7, <1>8 DEF PassStep

(* Every step leaves one owner.                                            *)
LEMMA NextKeepsOwner == ASSUME OInv, [Next]_vars PROVE OInv'
<1>0. SInv'
  BY NextKeepsStream DEF OInv
<1>1. CASE UNCHANGED vars
  BY <1>0, <1>1 DEF vars, stream, OInv, ClaimOK, ExclusiveOwner
<1>2. ASSUME NEW p \in Connectors, PassStep(p) \/ Abandon(p)
      PROVE  OInv'
  <2>1. \A q \in Connectors \ {p} : pc'[q] = pc[q] /\ seen'[q] = seen[q] /\ level'[q] = level[q]
    BY <1>2, Footprint DEF OInv
  <2>2. \A q \in Connectors : ClaimOK(q)'
    BY <1>2, <2>1, PassKeepsClaims DEF OInv, ClaimOK
  <2>3. CASE AppendLands(p)
    <3>1. pc[p] \in Appends /\ at[p] = tail /\ Land(Event(p))
      BY <2>3 DEF AppendLands, Matches
    <3>2. ExclusiveOwner' /\ flying' = {}
      BY <3>1, EventClaims, LandKeepsOwner DEF Land
    <3> QED
      BY <1>0, <2>2, <3>2 DEF OInv
  <2>4. CASE ~AppendLands(p)
    <3>1. UNCHANGED journal
      BY <1>2, <2>4, Footprint DEF OInv
    <3>2. CASE UNCHANGED flying
      BY <1>0, <2>2, <3>1, <3>2 DEF OInv, ExclusiveOwner
    <3>3. CASE flying' = flying \cup {Event(p)} /\ pc[p] \in Appends /\ Matches(at[p])
      <4>1. /\ Event(p).kind # "GraphReleased"
            /\ Event(p).kind = "BindingEstablished" =>
                 \A b \in journal.bindings : b.graph = Event(p).binding.graph
        BY <3>3, EventClaims DEF Matches
      <4> QED
        BY <1>0, <2>2, <3>1, <3>3, <4>1 DEF OInv, ExclusiveOwner
    <3> QED
      BY <1>2, <2>4, <3>2, <3>3, Footprint DEF Abandon, OInv
  <2> QED
    BY <2>3, <2>4
<1>3. CASE LandsLate
  <2>1. PICK e \in flying : Land(e) /\ UNCHANGED <<level, plan, pc, at, seen, database>>
    BY <1>3 DEF LandsLate
  <2>2. EventTyped(e) /\ e.kind # "GraphReleased"
    BY <2>1 DEF OInv, SInv, TInv
  <2>3. ExclusiveOwner' /\ flying' = {}
    BY <2>1, <2>2, LandKeepsOwner DEF OInv, Land
  <2> QED
    BY <1>0, <2>1, <2>3 DEF OInv, ClaimOK
<1>4. ASSUME NEW i \in 1 .. MaxSessions, Turn(i) PROVE OInv'
  <2>1. /\ UNCHANGED <<level, seen, journal, flying>>
        /\ \A q \in Connectors :
             pc'[q] = pc[q] \/ pc'[q] \in {"stale?", "failed?", "succeed"}
    BY <1>4, TurnTells DEF OInv, SInv, stream
  <2> QED
    BY <1>0, <2>1 DEF OInv, ClaimOK, Claiming, ExclusiveOwner
<1> QED
  BY <1>1, <1>2, <1>3, <1>4 DEF Next

(* Every record on its way to the stream is one its sender may still land: *)
(* the target has one owner throughout.                                    *)
LEMMA OwnerInvariant == Spec => []OInv
<1>1. Init => OInv
  BY InitHasStream DEF Init, OInv, ClaimOK, Claiming, EmptyJournal, ExclusiveOwner
<1>2. OInv /\ [Next]_vars => OInv'
  BY NextKeepsOwner
<1> QED
  BY <1>1, <1>2, PTL DEF Spec

(* Nothing but the compare-and-append keeps two connectors from claiming   *)
(* the target for two graphs, and it is enough, abandoned appends included. *)
THEOREM OwnerCorrect == Spec => []ExclusiveOwner
<1>1. OInv => ExclusiveOwner
  BY DEF OInv
<1> QED
  BY <1>1, OwnerInvariant, PTL

-----------------------------------------------------------------------------
(* Migrations and their snapshots *)

(* Only the holder of the advisory lock commits, and so nothing commits    *)
(* between its check and its own commit.                                   *)
MInv ==
  /\ TInv
  /\ \A i \in 1 .. Len(sessions) : sessions[i].stage = "committing" => i = 1
  /\ MigrationsAreFresh

(* An unchanged database with sessions that were there, or are waiting.    *)
LEMMA WaitersKeepFreshness ==
  ASSUME MInv, TInv', UNCHANGED target,
         \A i \in 1 .. Len(sessions') :
           sessions'[i].stage = "committing" =>
             \E j \in 1 .. Len(sessions) : /\ sessions'[i].plan = sessions[j].plan
                                           /\ sessions[j].stage = "committing"
                                           /\ j = 1 => i = 1
  PROVE  MInv'
  BY DEF MInv, MigrationsAreFresh

(* The ledger a migration was planned from is the ledger it commits to:    *)
(* its snapshot shows what the plan observed, and serializability refuses  *)
(* it unless the snapshot's ledger still is the database's.                *)
LEMMA ExecutesFresh ==
  ASSUME MInv, NEW i \in 1 .. MaxSessions, TurnExecutes(i),
         sessions[i].plan.op.kind = "migration"
  PROVE  Observe(target, sessions[i].plan.slice).receipts = sessions[i].plan.observed.receipts
<1>1. sessions[i] \in Sessions /\ target \in TargetStates
  BY DEF TurnExecutes, Waiting, MInv, TInv, TypeOK
<1>2. sessions[i].snapshot \in TargetStates
  BY <1>1 DEF Sessions
<1>3. sessions[i].snapshot.receipts = target.receipts
  BY DEF TurnExecutes, IsRefused, SerializationFails
<1>4. /\ Visible(sessions[i]).receipts = sessions[i].snapshot.receipts
      /\ Visible(sessions[i]).metadata = target.metadata
  BY <1>2 DEF Visible, TargetStates
<1>5. Observe(Visible(sessions[i]), sessions[i].plan.slice).receipts
        = Observe(target, sessions[i].plan.slice).receipts
  BY <1>3, <1>4 DEF Observe
<1> QED
  BY <1>5 DEF TurnExecutes, Fresh

(* Every turn keeps migrations fresh.                                      *)
LEMMA TurnKeepsFreshness == ASSUME MInv, NEW i \in 1 .. MaxSessions, Turn(i) PROVE MInv'
<1>0. /\ i \in 1 .. Len(sessions) /\ sessions \in Seq(Sessions) /\ Len(sessions) \in Nat /\ TInv'
  BY TurnTyped DEF Turn, TurnIsStale, TurnIsRefused, TurnExecutes, Commits, CommitFails,
                   Committing, OrphanEnds, Waiting,
                   MInv, TInv, TypeOK
<1>1. CASE TurnExecutes(i)
  <2>1. /\ i = 1 /\ UNCHANGED target /\ sessions' = [sessions EXCEPT ![i].stage = "committing"]
    BY <1>1 DEF TurnExecutes, Waiting, HoldsLock
  <2>2. /\ Len(sessions') = Len(sessions)
        /\ \A j \in 1 .. Len(sessions) : /\ sessions'[j].plan = sessions[j].plan
                                         /\ j # 1 => sessions'[j] = sessions[j]
    <3>1. \A j \in 1 .. Len(sessions) : sessions[j] \in Sessions
      BY <1>0
    <3> QED
      BY <1>0, <2>1, <3>1 DEF Sessions
  <2>3. \A j \in 1 .. Len(sessions') : sessions'[j].stage = "committing" => j = 1
    BY <2>2 DEF MInv
  <2>4. MigrationsAreFresh'
    BY <1>1, <2>1, <2>2, <2>3, ExecutesFresh DEF MigrationsAreFresh
  <2> QED
    BY <1>0, <2>3, <2>4 DEF MInv
<1>2. CASE sessions' = Without(sessions, i)
  <2>1. /\ Len(sessions') = Len(sessions) - 1
        /\ \A j \in 1 .. Len(sessions) - 1 :
             sessions'[j] = IF j < i THEN sessions[j] ELSE sessions[j + 1]
    BY <1>0, <1>2, WithoutTyped
  <2>2. CASE UNCHANGED target
    <3> SUFFICES ASSUME NEW k \in 1 .. Len(sessions'), sessions'[k].stage = "committing"
                 PROVE  \E j \in 1 .. Len(sessions) : /\ sessions'[k].plan = sessions[j].plan
                                                      /\ sessions[j].stage = "committing"
                                                      /\ j = 1 => k = 1
      BY <1>0, <2>2, WaitersKeepFreshness
    <3>1. PICK m \in 1 .. Len(sessions) :
            sessions'[k] = sessions[m] /\ m = IF k < i THEN k ELSE k + 1
      BY <1>0, <2>1
    <3> QED
      BY <3>1
  <2>3. CASE Commits(i)
    <3>1. i = 1
      BY <1>0, <2>3 DEF Commits, Committing, MInv
    <3>2. \A k \in 1 .. Len(sessions') : sessions'[k].stage # "committing"
      BY <1>0, <2>1, <3>1 DEF MInv
    <3> QED
      BY <1>0, <3>2 DEF MInv, MigrationsAreFresh
  <2> QED
    BY <2>2, <2>3 DEF Turn, TurnIsStale, TurnIsRefused, TurnExecutes, CommitFails, OrphanEnds
<1> QED
  BY <1>1, <1>2 DEF Turn, TurnIsStale, TurnIsRefused, Commits, CommitFails, OrphanEnds

(* So does every other step: none changes the database.                    *)
LEMMA NextKeepsFreshness == ASSUME MInv, [Next]_vars PROVE MInv'
<1>0. TInv' /\ sessions \in Seq(Sessions) /\ Len(sessions) \in Nat
  BY NextTyped DEF MInv, TInv, TypeOK
<1>1. CASE UNCHANGED <<sessions, target>>
  BY <1>0, <1>1 DEF MInv, MigrationsAreFresh
<1>2. ASSUME NEW p \in Connectors, Begin(p) PROVE MInv'
  <2> DEFINE s == [client |-> p, plan |-> plan[p], snapshot |-> target, stage |-> "waiting"]
  <2>1. UNCHANGED target /\ sessions' = Append(sessions, s)
    BY <1>2 DEF Begin
  <2>2. s.stage = "waiting"
    OBVIOUS
  <2> HIDE DEF s
  <2>3. \A i \in 1 .. Len(sessions') :
          sessions'[i] = IF i \in 1 .. Len(sessions) THEN sessions[i] ELSE s
    BY <1>0, <2>1
  <2> QED
    BY <1>0, <2>1, <2>2, <2>3, WaitersKeepFreshness
<1>3. ASSUME NEW p \in Connectors, Abandon(p) PROVE MInv'
  <2>1. /\ UNCHANGED target
        /\ sessions' = [i \in DOMAIN sessions |->
                          IF sessions[i].client = p THEN [sessions[i] EXCEPT !.client = None]
                          ELSE sessions[i]]
    BY <1>3 DEF Abandon
  <2>2. \A i \in 1 .. Len(sessions) : sessions[i] \in Sessions
    BY <1>0
  <2>3. /\ DOMAIN sessions' = 1 .. Len(sessions) /\ sessions' \in Seq(Sessions)
        /\ \A i \in 1 .. Len(sessions) : /\ sessions'[i].plan = sessions[i].plan
                                         /\ sessions'[i].stage = sessions[i].stage
    BY <1>0, <2>1, <2>2 DEF Sessions, TInv, TypeOK
  <2>4. Len(sessions') = Len(sessions)
    BY <1>0, <2>3
  <2> QED
    BY <1>0, <2>1, <2>3, <2>4, WaitersKeepFreshness
<1>4. ASSUME NEW p \in Connectors, PassStep(p), ~Begin(p) PROVE UNCHANGED <<sessions, target>>
  BY <1>4 DEF PassStep, Accept, CheckTail, ReadAgain, ReadRefused, ReadPlan, ReadFresh, Read,
              AppendLands, AppendConflicts, ObserveForApply, NothingToPlan, Propose, database
<1>5. CASE LandsLate
  BY <1>1, <1>5 DEF LandsLate, database
<1>6. CASE UNCHANGED vars
  BY <1>1, <1>6 DEF vars, database
<1> QED
  BY <1>1, <1>2, <1>3, <1>4, <1>5, <1>6, TurnKeepsFreshness DEF Next

(* A migration never commits to a ledger other than the one its plan was   *)
(* made from, however old its snapshot is and however many sessions, their *)
(* clients dead or alive, wait for the lock.                               *)
THEOREM MigrationsCorrect == Spec => []MigrationsAreFresh
<1>1. Init => MInv
  BY InitTyped DEF Init, MInv, MigrationsAreFresh
<1>2. MInv /\ [Next]_vars => MInv'
  BY NextKeepsFreshness
<1>3. MInv => MigrationsAreFresh
  BY DEF MInv
<1> QED
  BY <1>1, <1>2, <1>3, PTL DEF Spec

-----------------------------------------------------------------------------
(* The plans, and what has happened since they were made *)

Accepted == {level[p] : p \in Connectors} \ {None}

LevelsAgree == \A d, e \in Accepted : d.graph = e.graph => d = e

ClaimsAreAccepted ==
  \A b \in journal.bindings :
    \E d \in Accepted : \E c \in DesiredContexts(d) : b = BindingFor(d, c)

Complete(d) == \A c \in DesiredContexts(d) : Bound(c, journal.bindings)

(* The operation Convergence asks for next, of a level that is not refused *)
(* by the bindings.                                                        *)
NextFor(d, op) ==
  /\ op \in First(Outstanding(d, journal.bindings, Observe(target, d)))
  /\ ~PlanIsRefused(d, Observe(target, d))

(* A component's binding is next, or done, or another graph's came first.  *)
MayBind(d, c) ==
  \/ TargetOwned(d, journal.bindings)
  \/ Bound(c, journal.bindings)
  \/ NextFor(d, EstablishBinding(d, c))

MadeToBind(x) ==
  /\ x.op.context \in DesiredContexts(x.slice)
  /\ x.op = EstablishBinding(x.slice, x.op.context)
  /\ MayBind(x.slice, x.op.context)

(* A plan to apply was made by the owner of the target, with all bindings. *)
MadeToApply(x) ==
  /\ Complete(x.slice)
  /\ ~TargetOwned(x.slice, journal.bindings)
  /\ x.op \in First(Outstanding(x.slice, journal.bindings, x.observed))
  /\ ~PlanIsRefused(x.slice, x.observed)
  /\ x.observed.schemas \subseteq target.schemas

Made(x) ==
  /\ x.slice \in Accepted
  /\ \A c \in DesiredContexts(x.slice) : ~PlanIssues(c)
  /\ x.op.kind = "bind" => MadeToBind(x)
  /\ x.op.kind # "bind" => MadeToApply(x)

(* A plan whose record may yet land was made from the journal it extends.  *)
PlanningOK(p) ==
  /\ pc[p] \in {"plan", "propose"} => ~DesiredIsRefused(level[p], seen[p].bindings)
  /\ plan[p] # None /\ (pc[p] = "propose" => at[p] = tail) => Made(plan[p])
  /\ pc[p] \in {"observe", "begin", "apply"} => plan[p].op.kind # "bind"

(* A binding that may yet land.                                            *)
BindingOK(b) ==
  \E d \in Accepted : \E c \in DesiredContexts(d) :
    /\ b = BindingFor(d, c)
    /\ ~DesiredIsRefused(d, journal.bindings)
    /\ MayBind(d, c)

(* What is about to commit is the next operation of its level, or nothing. *)
EffectOK(x) ==
  /\ CanExecute(target, x.op)
  /\ Execute(target, x.op) = target \/ NextFor(x.slice, x.op)

(* Since a session took its snapshot, the target has only advanced.        *)
SessionOK(s) ==
  /\ Made(s.plan) /\ s.plan.op.kind # "bind"
  /\ OnlyAdvanced(s.plan.slice, journal.bindings, s.snapshot, target)
  /\ s.stage = "committing" =>
       EffectOK(s.plan) /\ s.plan.observed.exposed = s.snapshot.exposed

WInv ==
  /\ OInv
  /\ MInv
  /\ LevelsAgree
  /\ ClaimsAreAccepted
  /\ \A p \in Connectors : PlanningOK(p)
  /\ \A e \in flying : e.kind = "BindingEstablished" => BindingOK(e.binding)
  /\ \A i \in 1 .. Len(sessions) : SessionOK(sessions[i])

-----------------------------------------------------------------------------
(* What the three kinds of steps leave of a plan.                          *)

(* A graph with all its bindings is the only one that is not excluded.     *)
LEMMA OneOwner ==
  ASSUME LevelsHaveComponents, LevelsAgree, Accepted \subseteq Slices,
         NEW d \in Accepted, NEW e \in Accepted, Complete(d),
         ~TargetOwned(d, journal.bindings), ~TargetOwned(e, journal.bindings)
  PROVE  e = d
<1>1. PICK c \in DesiredContexts(d) : Bound(c, journal.bindings)
  BY DEF LevelsHaveComponents, Complete
<1>2. PICK b \in journal.bindings : b.graph = d.graph /\ b.graph = e.graph
  BY <1>1 DEF Bound, TargetOwned
<1> QED
  BY <1>2 DEF LevelsAgree

(* A level that no other graph excludes has no conflict with its bindings. *)
LEMMA OwnersAreNotRefused ==
  ASSUME LevelsAgree, ClaimsAreAccepted, Accepted \subseteq Slices,
         NEW d \in Accepted, ~TargetOwned(d, journal.bindings),
         \A c \in DesiredContexts(d) : ~PlanIssues(c)
  PROVE  ~DesiredIsRefused(d, journal.bindings)
<1> SUFFICES ASSUME NEW c \in DesiredContexts(d), BindingConflict(d, c, journal.bindings)
             PROVE  FALSE
  BY DEF DesiredIsRefused
<1>1. PICK b \in journal.bindings : b.resource = c.resource /\ b # BindingFor(d, c)
  BY DEF BindingConflict
<1>2. PICK e \in Accepted : \E x \in DesiredContexts(e) : b = BindingFor(e, x)
  BY DEF ClaimsAreAccepted
<1>3. PICK x \in DesiredContexts(e) : b = BindingFor(e, x)
  BY <1>2
<1>4. b.graph = e.graph /\ b.resource = x.resource
  BY <1>3 DEF BindingFor
<1>5. e = d
  BY <1>4 DEF TargetOwned, LevelsAgree
<1>6. x = c
  BY <1>1, <1>4, <1>5, ContextsAreDistinct, SlicesAreDescribed DEF DesiredContexts
<1> QED
  BY <1>1, <1>3, <1>5, <1>6

(* Claiming a binding adds it, or leaves the bindings as they are.         *)
LEMMA ClaimAdds ==
  ASSUME NEW d, NEW c \in DesiredContexts(d), ~DesiredIsRefused(d, journal.bindings)
  PROVE  /\ Bound(c, journal.bindings) =>
              /\ BindingFor(d, c) \in journal.bindings
              /\ Claim(journal.bindings, BindingFor(d, c)) = journal.bindings
         /\ ~Bound(c, journal.bindings) =>
              Claim(journal.bindings, BindingFor(d, c)) = journal.bindings \cup {BindingFor(d, c)}
<1>1. BindingFor(d, c).resource = c.resource
  BY DEF BindingFor
<1>2. \A b \in journal.bindings : b.resource = c.resource => b = BindingFor(d, c)
  BY DEF DesiredIsRefused, BindingConflict
<1> QED
  BY <1>1, <1>2 DEF Claim, Bound

(* Nothing that a plan relies on has changed.                              *)
Quiet ==
  /\ target' = target
  /\ journal'.bindings = journal.bindings
  /\ Accepted \subseteq Accepted'

(* A binding lands that was allowed to.                                    *)
Claims(b) ==
  /\ BindingOK(b)
  /\ journal'.bindings = Claim(journal.bindings, b)
  /\ target' = target
  /\ Accepted' = Accepted

(* A plan stays properly made as long as nothing it relies on changes.     *)
LEMMA QuietKeepsMade ==
  ASSUME Quiet, NEW x, Made(x)
  PROVE  Made(x)'
  BY DEF Quiet, Made, MadeToBind, MadeToApply, MayBind, NextFor, Complete

(* A binding that lands is new, and then its level was incomplete and its  *)
(* component next; or nothing changes.                                     *)
LEMMA ClaimsNext ==
  ASSUME NEW b, Claims(b)
  PROVE  \/ Quiet /\ b \in journal'.bindings
         \/ \E d \in Accepted : \E c \in DesiredContexts(d) :
              /\ b = BindingFor(d, c) /\ ~DesiredIsRefused(d, journal.bindings)
              /\ ~Bound(c, journal.bindings)
              /\ NextFor(d, EstablishBinding(d, c))
              /\ journal'.bindings = journal.bindings \cup {b}
<1>1. PICK d \in Accepted : \E c \in DesiredContexts(d) :
        b = BindingFor(d, c) /\ ~DesiredIsRefused(d, journal.bindings) /\ MayBind(d, c)
  BY DEF Claims, BindingOK
<1>2. PICK c \in DesiredContexts(d) :
        b = BindingFor(d, c) /\ ~DesiredIsRefused(d, journal.bindings) /\ MayBind(d, c)
  BY <1>1
<1>3. CASE Bound(c, journal.bindings)
  BY <1>2, <1>3, ClaimAdds DEF Claims, Quiet
<1>4. CASE ~Bound(c, journal.bindings)
  <2>1. NextFor(d, EstablishBinding(d, c))
    BY <1>2, <1>4 DEF MayBind, DesiredIsRefused
  <2> QED
    BY <1>2, <1>4, <2>1, ClaimAdds DEF Claims
<1> QED
  BY <1>3, <1>4

(* While a plan to apply stands, no new binding lands.                     *)
LEMMA AppliersKeepBindings ==
  ASSUME LevelsHaveComponents, LevelsAgree, Accepted \subseteq Slices,
         NEW b, Claims(b), NEW x, x.slice \in Accepted, MadeToApply(x)
  PROVE  Quiet
<1> SUFFICES ASSUME NEW d \in Accepted, NEW c \in DesiredContexts(d),
                    ~DesiredIsRefused(d, journal.bindings), ~Bound(c, journal.bindings)
             PROVE  FALSE
  BY ClaimsNext
<1>1. d = x.slice
  BY OneOwner DEF MadeToApply, DesiredIsRefused
<1> QED
  BY <1>1 DEF MadeToApply, Complete

(* A binding that lands leaves every plan properly made: it is there       *)
(* already, or its level was incomplete and no plan to apply had been      *)
(* made.                                                                   *)
LEMMA ClaimsKeepsMade ==
  ASSUME LevelsHaveComponents, LevelsAgree, Accepted \subseteq Slices,
         NEW b, Claims(b), NEW x, Made(x)
  PROVE  Made(x)'
<1>1. CASE Quiet
  BY <1>1, QuietKeepsMade
<1>2. CASE ~Quiet
  <2>1. PICK d \in Accepted : \E c \in DesiredContexts(d) :
          /\ b = BindingFor(d, c) /\ ~DesiredIsRefused(d, journal.bindings)
          /\ ~Bound(c, journal.bindings) /\ NextFor(d, EstablishBinding(d, c))
          /\ journal'.bindings = journal.bindings \cup {b}
    BY <1>2, ClaimsNext
  <2>2. PICK c \in DesiredContexts(d) :
          /\ b = BindingFor(d, c) /\ ~DesiredIsRefused(d, journal.bindings)
          /\ ~Bound(c, journal.bindings) /\ NextFor(d, EstablishBinding(d, c))
          /\ journal'.bindings = journal.bindings \cup {b}
    BY <2>1
  <2>3. x.op.kind = "bind"
    BY <1>2, AppliersKeepBindings DEF Made
  <2> DEFINE e == x.slice
             a == x.op.context
  <2>4. /\ e \in Accepted /\ a \in DesiredContexts(e) /\ x.op = EstablishBinding(e, a)
        /\ MayBind(e, a)
    BY <2>3 DEF Made, MadeToBind
  <2>5. b.graph = d.graph /\ b.resource = c.resource
    BY <2>2 DEF BindingFor
  <2>6. TargetOwned(e, journal'.bindings) \/ Bound(a, journal'.bindings)
    <3>1. CASE TargetOwned(e, journal.bindings) \/ Bound(a, journal.bindings)
      BY <2>2, <3>1 DEF TargetOwned, Bound
    <3>2. CASE e.graph # d.graph
      BY <2>2, <2>5, <3>2 DEF TargetOwned
    <3>3. CASE e.graph = d.graph /\ NextFor(e, EstablishBinding(e, a))
      <4>1. e = d
        BY <2>4, <3>3 DEF LevelsAgree
      <4>2. a = c
        BY <2>2, <3>3, <4>1, OneBindingFirst DEF NextFor
      <4> QED
        BY <2>2, <2>5, <4>2 DEF Bound
    <3> QED
      BY <2>4, <3>1, <3>2, <3>3 DEF MayBind
  <2> QED
    BY <2>3, <2>4, <2>6 DEF Made, MadeToBind, MayBind, Claims
<1> QED
  BY <1>1, <1>2

(* What may commit, and how little it changes.                             *)
LEMMA CommitOf ==
  ASSUME WInv, NEW i \in 1 .. MaxSessions, Commits(i)
  PROVE  LET x == sessions[1].plan IN
         /\ i = 1 /\ 1 \in 1 .. Len(sessions) /\ sessions[1].stage = "committing"
         /\ sessions[1] \in Sessions /\ target \in TargetStates /\ x.op \in Operations
         /\ x.slice \in Slices /\ SessionOK(sessions[1]) /\ MadeToApply(x)
         /\ target' = Execute(target, x.op)
         /\ target.schemas \subseteq target'.schemas
         /\ UNCHANGED <<level, plan, at, seen, tail, journal, flying>> /\ Accepted' = Accepted
<1>1. /\ i \in 1 .. Len(sessions) /\ sessions[i].stage = "committing"
      /\ target' = Execute(target, sessions[i].plan.op)
      /\ UNCHANGED <<level, plan, at, seen, tail, journal, flying>>
  BY DEF Commits, Committing, stream
<1>2. i = 1 /\ sessions \in Seq(Sessions) /\ target \in TargetStates
  BY <1>1 DEF WInv, MInv, TInv, TypeOK
<1>3. sessions[1] \in Sessions /\ SessionOK(sessions[1])
  BY <1>1, <1>2 DEF WInv
<1>4. sessions[1].plan.op \in Operations /\ sessions[1].plan.slice \in Slices
  BY <1>3 DEF Sessions, Plans
<1>5. target.schemas \subseteq Execute(target, sessions[1].plan.op).schemas
  BY <1>2, <1>4 DEF Execute, TargetStates, Operations
<1> QED
  BY <1>1, <1>2, <1>3, <1>4, <1>5 DEF SessionOK, Made, Accepted

(* A commit leaves a binding of another level as allowed as it was: the    *)
(* committing level is complete, so the other one is refused or bound.     *)
LEMMA CommitKeepsMayBind ==
  ASSUME LevelsHaveComponents, WInv, Accepted \subseteq Slices,
         NEW i \in 1 .. MaxSessions, Commits(i),
         NEW d \in Accepted, NEW c \in DesiredContexts(d), MayBind(d, c)
  PROVE  MayBind(d, c)'
<1> DEFINE x == sessions[1].plan
<1>1. UNCHANGED journal /\ MadeToApply(x) /\ x.slice \in Accepted
  BY CommitOf DEF SessionOK, Made
<1>2. TargetOwned(d, journal.bindings) \/ Bound(c, journal.bindings)
  <2> SUFFICES ASSUME ~TargetOwned(d, journal.bindings) PROVE Bound(c, journal.bindings)
    OBVIOUS
  <2>1. d = x.slice
    BY <1>1, OneOwner DEF MadeToApply, WInv
  <2> QED
    BY <1>1, <2>1 DEF MadeToApply, Complete
<1> QED
  BY <1>1, <1>2 DEF MayBind

(* A commit leaves every plan properly made: it only adds schemas.         *)
LEMMA CommitKeepsMade ==
  ASSUME LevelsHaveComponents, WInv, Accepted \subseteq Slices,
         NEW i \in 1 .. MaxSessions, Commits(i), NEW x, Made(x)
  PROVE  Made(x)'
<1>1. UNCHANGED journal /\ Accepted' = Accepted /\ target.schemas \subseteq target'.schemas
  BY CommitOf
<1>2. CASE x.op.kind = "bind"
  BY <1>1, <1>2, CommitKeepsMayBind DEF Made, MadeToBind
<1>3. CASE x.op.kind # "bind"
  BY <1>1, <1>3 DEF Made, MadeToApply, Complete
<1> QED
  BY <1>2, <1>3

-----------------------------------------------------------------------------
(* What they leave of a session.                                           *)

(* A session is good as long as nothing its plan relies on changes.        *)
LEMMA QuietKeepsSession ==
  ASSUME Quiet, NEW s, SessionOK(s)
  PROVE  SessionOK(s)'
<1>1. Made(s.plan)'
  BY QuietKeepsMade DEF SessionOK
<1>2. /\ EffectOK(s.plan) => EffectOK(s.plan)'
      /\ OnlyAdvanced(s.plan.slice, journal.bindings, s.snapshot, target)
           => OnlyAdvanced(s.plan.slice, journal.bindings, s.snapshot, target)'
  BY DEF Quiet, EffectOK, NextFor
<1> QED
  BY <1>1, <1>2 DEF SessionOK

(* A binding that lands leaves every session good: the level of an open    *)
(* session is complete and owns the target.                                *)
LEMMA ClaimsKeepsSession ==
  ASSUME LevelsHaveComponents, LevelsAgree, Accepted \subseteq Slices,
         NEW b, Claims(b), NEW s, SessionOK(s)
  PROVE  SessionOK(s)'
  BY AppliersKeepBindings, QuietKeepsSession DEF SessionOK, Made

(* The sessions that a commit leaves have only seen the target advance.    *)
LEMMA CommitKeepsSession ==
  ASSUME LevelsHaveComponents, WInv, Accepted \subseteq Slices,
         NEW i \in 1 .. MaxSessions, Commits(i),
         NEW s \in Sessions, SessionOK(s), s.stage # "committing"
  PROVE  SessionOK(s)'
<1> DEFINE x == sessions[1].plan
<1>1. /\ UNCHANGED journal /\ MadeToApply(x) /\ x.slice \in Accepted /\ x.slice \in Slices
      /\ x.op \in First(Outstanding(x.slice, journal.bindings, x.observed)) /\ x.op.kind # "bind"
      /\ target \in TargetStates /\ sessions[1].snapshot \in TargetStates
      /\ x.observed.exposed = sessions[1].snapshot.exposed
      /\ OnlyAdvanced(x.slice, journal.bindings, sessions[1].snapshot, target)
      /\ target' = Execute(target, x.op)
  BY CommitOf DEF SessionOK, Made, MadeToApply, Sessions
<1>2. s.plan.slice = x.slice /\ s.snapshot \in TargetStates
  BY <1>1, OneOwner DEF SessionOK, Made, MadeToApply, WInv, Sessions
<1>3. OnlyAdvanced(x.slice, journal.bindings, s.snapshot, Execute(target, x.op))
  BY <1>1, <1>2, ExecuteAdvances DEF SessionOK
<1>4. Made(s.plan)'
  BY CommitKeepsMade DEF SessionOK
<1> QED
  BY <1>1, <1>2, <1>3, <1>4 DEF SessionOK

(* A session whose snapshot shows what its plan observed executes the next *)
(* operation of its level, or nothing.                                     *)
LEMMA ExecutesNext ==
  ASSUME WInv, Accepted \subseteq Slices, NEW i \in 1 .. MaxSessions, TurnExecutes(i)
  PROVE  /\ EffectOK(sessions[i].plan)
         /\ sessions[i].plan.observed.exposed = sessions[i].snapshot.exposed
<1> DEFINE s == sessions[i]
           x == s.plan
           d == x.slice
<1>1. /\ i \in 1 .. Len(sessions) /\ Fresh(s) /\ ~IsRefused(s)
      /\ sessions \in Seq(Sessions) /\ target \in TargetStates
  BY DEF TurnExecutes, Waiting, WInv, MInv, TInv, TypeOK
<1>2. /\ s \in Sessions /\ SessionOK(s) /\ s.snapshot \in TargetStates
  <2>1. sessions[i] \in Sessions
    BY <1>1
  <2>2. SessionOK(sessions[i])
    BY <1>1 DEF WInv
  <2> QED
    BY <2>1, <2>2 DEF Sessions
<1> HIDE DEF s
<1>3. /\ x.observed = Observe(Through(s.snapshot, target), d)
      /\ CanExecute(target, x.op)
      /\ x.op.kind = "migration" => s.snapshot.receipts = target.receipts
  BY <1>1 DEF Fresh, Visible, Through, IsRefused, SerializationFails
<1>4. /\ d \in Slices /\ x.op.kind # "bind" /\ \A c \in DesiredContexts(d) : ~PlanIssues(c)
      /\ x.op \in First(Outstanding(d, journal.bindings, x.observed))
      /\ ~PlanIsRefused(d, x.observed)
      /\ OnlyAdvanced(d, journal.bindings, s.snapshot, target)
  BY <1>2 DEF SessionOK, Made, MadeToApply
<1>5. \/ Execute(target, x.op) = target
      \/ x.op \in First(Outstanding(d, journal.bindings, Observe(target, d)))
  BY <1>1, <1>2, <1>3, <1>4, AdvancedStaysFirst
<1>6. ~PlanIsRefused(d, Observe(target, d))
  BY <1>1, <1>2, <1>3, <1>4, AdvancedIsNotRefused
<1>7. x.observed.exposed = s.snapshot.exposed
  BY <1>1, <1>2, <1>3, ObservedThrough
<1> QED
  BY <1>3, <1>5, <1>6, <1>7 DEF EffectOK, NextFor, s

-----------------------------------------------------------------------------
(* Every step is quiet, claims, or commits.                                *)

(* Levels are slices, and every plan in hand or retained is one's own.     *)
LEMMA Basics ==
  ASSUME WInv
  PROVE  /\ OInv /\ SInv /\ TInv /\ TypeOK /\ MInv /\ LevelsAgree /\ ClaimsAreAccepted
         /\ Accepted \subseteq Slices
         /\ \A p \in Connectors :
              /\ ActivityOK(p) /\ StreamOK(p) /\ ClaimOK(p) /\ PlanningOK(p)
              /\ level[p] # None => level[p] \in Accepted
              /\ pc[p] # "idle" => level[p] \in Accepted
<1>1. OInv /\ SInv /\ TInv /\ TypeOK /\ MInv /\ LevelsAgree /\ ClaimsAreAccepted
  BY DEF WInv, OInv, SInv, TInv
<1>2. Accepted \subseteq Slices
  BY <1>1 DEF TypeOK, Accepted
<1>3. ASSUME NEW p \in Connectors
      PROVE  /\ ActivityOK(p) /\ StreamOK(p) /\ ClaimOK(p) /\ PlanningOK(p)
             /\ level[p] # None => level[p] \in Accepted
  BY <1>1, <1>3 DEF WInv, OInv, SInv, TInv, Accepted
<1> QED
  BY <1>1, <1>2, <1>3, NoneIsNoValue DEF ActivityOK

(* The binding that an append at the tail establishes was allowed to be.   *)
LEMMA EventMayBind ==
  ASSUME WInv, NEW p \in Connectors, pc[p] \in Appends, at[p] = tail,
         Event(p).kind = "BindingEstablished"
  PROVE  BindingOK(Event(p).binding)
<1> DEFINE x == plan[p]
           d == x.slice
<1>1. pc[p] = "bind" /\ \A b \in journal.bindings : b.graph = Event(p).binding.graph
  BY EventClaims, Basics
<1>2. x # None /\ x.op.kind = "bind"
  BY <1>1, NoneIsNoPlan, Basics DEF ActivityOK, PlanLabels, Appends
<1>3. Made(x)
  BY <1>1, <1>2, Basics DEF PlanningOK
<1>4. /\ d \in Accepted /\ x.op.context \in DesiredContexts(d)
      /\ MayBind(d, x.op.context) /\ \A c \in DesiredContexts(d) : ~PlanIssues(c)
  BY <1>2, <1>3 DEF Made, MadeToBind
<1>5. Event(p).binding = BindingFor(d, x.op.context)
  BY <1>1 DEF Event, BindingEstablished
<1>6. ~TargetOwned(d, journal.bindings)
  BY <1>1, <1>5 DEF TargetOwned, BindingFor
<1>7. ~DesiredIsRefused(d, journal.bindings)
  BY <1>4, <1>6, OwnersAreNotRefused, Basics
<1> QED
  BY <1>4, <1>5, <1>7 DEF BindingOK

(* What a record that lands does to the bindings.                          *)
LEMMA LandClaims ==
  ASSUME WInv, NEW e, EventTyped(e), e.kind # "GraphReleased",
         e.kind = "BindingEstablished" => BindingOK(e.binding),
         Land(e), target' = target, level' = level
  PROVE  Quiet \/ \E b : Claims(b)
<1>1. JournalTyped(journal) /\ journal' = Appended(journal, e) /\ Accepted' = Accepted
  BY Basics DEF Land, TypeOK, Accepted
<1>2. CASE e.kind = "BindingEstablished"
  <2>1. journal'.bindings = Claim(journal.bindings, e.binding)
    BY <1>1, <1>2, AppendedBindings
  <2> QED
    BY <1>1, <1>2, <2>1 DEF Claims
<1>3. CASE e.kind \in {"PlanCreated", "PlanStale", "Started", "Succeeded", "Failed"}
  BY <1>1, <1>3, AppendedBindings DEF Quiet
<1> QED
  BY <1>2, <1>3 DEF EventTyped

(* A step of a pass that appends nothing relies on nothing, and only       *)
(* accepting a level changes the levels.                                   *)
LEMMA PassesAreQuiet ==
  ASSUME WInv, NEW p \in Connectors, PassStep(p) \/ Abandon(p)
  PROVE  /\ target' = target
         /\ ~AppendLands(p) => Quiet
         /\ level' = level \/ \E d \in Slices : Accept(p, d)
<1> USE DEF stream, database
<1>1. /\ target' = target
      /\ level' = level \/ \E d \in Slices : Accept(p, d)
  BY DEF PassStep, Accept, CheckTail, ReadAgain, ReadRefused, ReadPlan, ReadFresh, Read,
         AppendLands, AppendConflicts, ObserveForApply, NothingToPlan, Propose, Begin, Abandon
<1>2. Accepted \subseteq Accepted'
  <2>1. CASE level' = level
    BY <2>1 DEF Accepted
  <2>2. ASSUME NEW d \in Slices, Accept(p, d) PROVE Accepted \subseteq Accepted'
    <3>1. \A q \in Connectors : level[q] # None => level'[q] = level[q]
      BY <2>2, Basics DEF Accept, TypeOK
    <3> QED
      BY <3>1 DEF Accepted
  <2> QED
    BY <1>1, <2>1, <2>2
<1>3. ~AppendLands(p) => UNCHANGED journal
  BY Footprint, Basics
<1> QED
  BY <1>1, <1>2, <1>3 DEF Quiet

(* Every step leaves alone what plans rely on, lands a binding, or commits *)
(* a session.                                                              *)
LEMMA StepEffects ==
  ASSUME WInv, [Next]_vars
  PROVE  Quiet \/ (\E b : Claims(b)) \/ \E i \in 1 .. MaxSessions : Commits(i)
<1> USE DEF stream, database
<1>1. CASE UNCHANGED vars
  BY <1>1 DEF vars, Quiet, Accepted
<1>2. ASSUME NEW p \in Connectors, PassStep(p) \/ Abandon(p)
      PROVE  Quiet \/ \E b : Claims(b)
  <2>1. CASE ~AppendLands(p)
    BY <1>2, <2>1, PassesAreQuiet
  <2>2. CASE AppendLands(p)
    <3>1. pc[p] \in Appends /\ at[p] = tail /\ Land(Event(p)) /\ target' = target /\ level' = level
      BY <2>2 DEF AppendLands, Matches
    <3>2. EventTyped(Event(p)) /\ Event(p).kind # "GraphReleased"
      BY <3>1, EventClaims, Basics
    <3>3. Event(p).kind = "BindingEstablished" => BindingOK(Event(p).binding)
      BY <3>1, EventMayBind
    <3> QED
      BY <3>1, <3>2, <3>3, LandClaims
  <2> QED
    BY <2>1, <2>2
<1>3. CASE LandsLate
  <2>1. PICK e \in flying : Land(e) /\ target' = target /\ level' = level
    BY <1>3 DEF LandsLate
  <2>2. /\ EventTyped(e) /\ e.kind # "GraphReleased"
        /\ e.kind = "BindingEstablished" => BindingOK(e.binding)
    BY <2>1 DEF WInv, OInv, SInv, TInv
  <2> QED
    BY <2>1, <2>2, LandClaims
<1>4. ASSUME NEW i \in 1 .. MaxSessions, Turn(i), ~Commits(i) PROVE Quiet
  BY <1>4 DEF Turn, TurnIsStale, TurnIsRefused, TurnExecutes, CommitFails, OrphanEnds, Quiet,
              Accepted
<1> QED
  BY <1>1, <1>2, <1>3, <1>4 DEF Next, Turn

-----------------------------------------------------------------------------
(* What every step keeps.                                                  *)

(* A plan that was made stays one that was.                                *)
LEMMA StepKeepsMade ==
  ASSUME LevelsHaveComponents, WInv, [Next]_vars, NEW x, Made(x)
  PROVE  Made(x)'
<1>1. CASE Quiet
  BY <1>1, QuietKeepsMade
<1>2. ASSUME NEW b, Claims(b) PROVE Made(x)'
  BY <1>2, ClaimsKeepsMade, Basics
<1>3. ASSUME NEW i \in 1 .. MaxSessions, Commits(i) PROVE Made(x)'
  BY <1>3, CommitKeepsMade, Basics
<1> QED
  BY <1>1, <1>2, <1>3, StepEffects

(* A binding that may land still may, unless a record lands.               *)
LEMMA StepKeepsBinding ==
  ASSUME LevelsHaveComponents, WInv, [Next]_vars, journal' = journal, NEW b, BindingOK(b)
  PROVE  BindingOK(b)'
<1>1. PICK d \in Accepted : \E c \in DesiredContexts(d) :
        b = BindingFor(d, c) /\ ~DesiredIsRefused(d, journal.bindings) /\ MayBind(d, c)
  BY DEF BindingOK
<1>2. PICK c \in DesiredContexts(d) :
        b = BindingFor(d, c) /\ ~DesiredIsRefused(d, journal.bindings) /\ MayBind(d, c)
  BY <1>1
<1>3. CASE target' = target /\ Accepted \subseteq Accepted'
  <2>1. MayBind(d, c)'
    BY <1>2, <1>3 DEF MayBind, NextFor
  <2> QED
    BY <1>2, <1>3, <2>1 DEF BindingOK
<1>4. ASSUME NEW i \in 1 .. MaxSessions, Commits(i) PROVE BindingOK(b)'
  <2>1. MayBind(d, c)' /\ Accepted' = Accepted
    BY <1>2, <1>4, CommitKeepsMayBind, CommitOf, Basics
  <2> QED
    BY <1>2, <2>1 DEF BindingOK
<1> QED
  BY <1>3, <1>4, StepEffects DEF Quiet, Claims

(* Core's levels agree, and every binding is of one of them.               *)
LEMMA StepKeepsLevels ==
  ASSUME LevelsHaveComponents, WInv, [Next]_vars
  PROVE  LevelsAgree' /\ ClaimsAreAccepted'
<1>1. LevelsAgree'
  <2>1. ASSUME NEW p \in Connectors, NEW d \in Slices, Accept(p, d) PROVE LevelsAgree'
    <3>1. Accepted' \subseteq Accepted \cup {d}
      BY <2>1, Basics DEF Accept, Accepted, TypeOK
    <3>2. \A e \in Accepted : e.graph = d.graph => e = d
      BY <2>1 DEF Accept, Accepted
    <3> QED
      BY <3>1, <3>2, Basics DEF LevelsAgree
  <2>2. CASE level' = level
    BY <2>2, Basics DEF LevelsAgree, Accepted
  <2>3. level' = level \/ \E p \in Connectors : \E d \in Slices : Accept(p, d)
    BY PassesAreQuiet, TurnTells, Basics DEF Next, LandsLate, vars
  <2> QED
    BY <2>1, <2>2, <2>3
<1>2. ClaimsAreAccepted'
  <2>1. CASE journal'.bindings = journal.bindings /\ Accepted \subseteq Accepted'
    BY <2>1, Basics DEF ClaimsAreAccepted
  <2>2. ASSUME NEW b, Claims(b) PROVE ClaimsAreAccepted'
    <3>1. \E d \in Accepted : \E c \in DesiredContexts(d) : b = BindingFor(d, c)
      BY <2>2 DEF Claims, BindingOK
    <3> QED
      BY <2>2, <3>1, Basics DEF Claims, Claim, ClaimsAreAccepted
  <2>3. ASSUME NEW i \in 1 .. MaxSessions, Commits(i)
        PROVE  journal'.bindings = journal.bindings /\ Accepted' = Accepted
    BY <2>3, CommitOf
  <2> QED
    BY <2>1, <2>2, <2>3, StepEffects DEF Quiet
<1> QED
  BY <1>1, <1>2

(* Bindings on their way may land as long as they can.                     *)
LEMMA StepKeepsFlying ==
  ASSUME LevelsHaveComponents, WInv, [Next]_vars
  PROVE  \A e \in flying' : e.kind = "BindingEstablished" => BindingOK(e.binding)'
<1> USE DEF stream, database
<1>1. CASE flying' = {}
  BY <1>1
<1>2. ASSUME journal' = journal,
             \A e \in flying' : e.kind = "BindingEstablished" => BindingOK(e.binding)
      PROVE  \A e \in flying' : e.kind = "BindingEstablished" => BindingOK(e.binding)'
  BY <1>2, StepKeepsBinding
<1>3. ASSUME NEW p \in Connectors, PassStep(p) \/ Abandon(p)
      PROVE  \/ flying' = {}
             \/ /\ journal' = journal
                /\ \A e \in flying' : e.kind = "BindingEstablished" => BindingOK(e.binding)
  <2>1. CASE AppendLands(p)
    BY <2>1 DEF AppendLands, Land
  <2>2. CASE ~AppendLands(p) /\ UNCHANGED flying
    BY <1>3, <2>2, Footprint, Basics DEF WInv
  <2>3. CASE ~AppendLands(p) /\ flying' = flying \cup {Event(p)} /\ pc[p] \in Appends
             /\ Matches(at[p])
    BY <1>3, <2>3, Footprint, Basics, EventMayBind DEF WInv, Matches
  <2> QED
    BY <1>3, <2>1, <2>2, <2>3, Footprint, Basics DEF Abandon
<1>4. ASSUME LandsLate PROVE flying' = {}
  BY <1>4 DEF LandsLate, Land
<1>5. ASSUME NEW i \in 1 .. MaxSessions, Turn(i) PROVE UNCHANGED <<journal, flying>>
  BY <1>5, TurnTells, Basics
<1>6. ASSUME UNCHANGED vars PROVE UNCHANGED <<journal, flying>>
  BY <1>6 DEF vars
<1>7. \/ flying' = {}
      \/ /\ journal' = journal
         /\ \A e \in flying' : e.kind = "BindingEstablished" => BindingOK(e.binding)
  BY <1>3, <1>4, <1>5, <1>6 DEF Next, WInv
<1> QED
  BY <1>1, <1>2, <1>7

-----------------------------------------------------------------------------
(* What a pass plans.                                                      *)

(* An operation proposed from the whole journal is a plan that was made.   *)
LEMMA ProposedIsMade ==
  ASSUME WInv, NEW p \in Connectors, pc[p] = "plan", at[p] = tail, NEW id,
         ~PlanIsRefused(level[p], Observe(target, level[p])),
         NEW op \in First(Outstanding(level[p], seen[p].bindings, Observe(target, level[p])))
  PROVE  Made(PlanOf(level[p], op, Observe(target, level[p]), id))
<1> DEFINE d == level[p]
           observed == Observe(target, d)
           x == PlanOf(d, op, observed, id)
<1>1. seen[p].bindings = journal.bindings /\ d \in Accepted
  BY Basics DEF StreamOK, Loaded, Fold
<1>2. ~DesiredIsRefused(d, journal.bindings)
  BY <1>1, Basics DEF PlanningOK
<1>3. x.slice = d /\ x.op = op /\ x.observed = observed
  BY DEF PlanOf
<1>4. op.kind = "bind" => MadeToBind(x)
  <2> SUFFICES ASSUME op.kind = "bind" PROVE MadeToBind(x)
    OBVIOUS
  <2>1. PICK c \in DesiredContexts(d) : op = EstablishBinding(d, c)
    BY OutstandingShapes
       DEF EstablishBinding, EnsureMetadata, EnsureSchema, ApplyMigration, ConfigureApi, Op
  <2>2. op.context = c
    BY <2>1 DEF EstablishBinding, Op
  <2>3. NextFor(d, op)
    BY <1>1 DEF NextFor
  <2> HIDE DEF x, d
  <2> QED
    BY <1>3, <2>1, <2>2, <2>3 DEF MadeToBind, MayBind
<1>5. op.kind # "bind" => MadeToApply(x)
  <2> SUFFICES ASSUME op.kind # "bind" PROVE MadeToApply(x)
    OBVIOUS
  <2>1. Complete(d)
    BY <1>1, BoundBeforeApplied DEF Complete
  <2>2. observed.schemas \subseteq target.schemas
    BY DEF Observe
  <2> HIDE DEF x
  <2> QED
    BY <1>1, <1>2, <1>3, <2>1, <2>2 DEF MadeToApply, DesiredIsRefused
<1>6. \A c \in DesiredContexts(d) : ~PlanIssues(c)
  BY <1>2 DEF DesiredIsRefused
<1> HIDE DEF x, d
<1>7. Made(x)
  BY <1>1, <1>3, <1>4, <1>5, <1>6 DEF Made
<1> QED
  BY <1>7 DEF x, d

(* Another pass's record leaves a plan alone whose own record can no       *)
(* longer land.                                                            *)
LEMMA OthersKeepPlanning ==
  ASSUME LevelsHaveComponents, WInv, [Next]_vars, NEW q \in Connectors,
         plan'[q] = plan[q], at'[q] = at[q], seen'[q] = seen[q], level'[q] = level[q],
         tail' \in {tail, tail + 1},
         \/ pc'[q] = pc[q]
         \/ pc[q] # "propose" /\ pc'[q] \in {"stale?", "failed?", "succeed"}
  PROVE  PlanningOK(q)'
<1>0. PlanningOK(q) /\ at[q] <= tail /\ at[q] \in Nat /\ tail \in Nat
  BY Basics DEF StreamOK, TypeOK
<1>1. pc'[q] \in {"plan", "propose"} => ~DesiredIsRefused(level'[q], seen'[q].bindings)
  BY <1>0 DEF PlanningOK
<1>2. ASSUME plan'[q] # None, pc'[q] = "propose" => at'[q] = tail' PROVE Made(plan[q])'
  BY <1>0, <1>2, StepKeepsMade DEF PlanningOK
<1>3. pc'[q] \in {"observe", "begin", "apply"} => plan'[q].op.kind # "bind"
  BY <1>0 DEF PlanningOK
<1> QED
  BY <1>1, <1>2, <1>3 DEF PlanningOK, Made, MadeToBind, MadeToApply

(* A pass keeps its own plans as they were made.                           *)
LEMMA PassKeepsPlanning ==
  ASSUME LevelsHaveComponents, WInv, [Next]_vars,
         NEW p \in Connectors, PassStep(p) \/ Abandon(p)
  PROVE  PlanningOK(p)'
<1> USE DEF stream, database, Goto
<1>0. /\ p \in DOMAIN seen /\ p \in DOMAIN at /\ p \in DOMAIN pc /\ p \in DOMAIN plan
      /\ p \in DOMAIN level /\ PlanningOK(p) /\ ActivityOK(p)
  BY Basics DEF SInv, TypeOK
<1>1. ASSUME plan'[p] = None \/ (plan'[p] = plan[p] /\ (pc[p] = "propose" => at[p] = tail)),
             pc'[p] \notin {"plan", "propose"},
             pc'[p] \in {"observe", "begin", "apply"} => plan'[p].op.kind # "bind"
      PROVE  PlanningOK(p)'
  <2>1. plan'[p] # None => Made(plan[p])'
    BY <1>0, <1>1, StepKeepsMade DEF PlanningOK
  <2> QED
    BY <1>1, <2>1 DEF PlanningOK, Made, MadeToBind, MadeToApply
<1>2. CASE \E d \in Slices : Accept(p, d)
  BY <1>0, <1>1, <1>2, NoneIsNoValue DEF Accept, ActivityOK
<1>3. CASE CheckTail(p)
  BY <1>0, <1>1, <1>3 DEF CheckTail, Loads
<1>4. CASE ReadAgain(p) \/ ReadPlan(p)
  BY <1>0, <1>1, <1>4 DEF ReadAgain, ReadPlan, Read
<1>5. CASE ReadRefused(p) \/ AppendConflicts(p) \/ NothingToPlan(p) \/ Abandon(p)
  BY <1>0, <1>1, <1>5 DEF ReadRefused, AppendConflicts, NothingToPlan, Abandon, EndPass, Retain
<1>6. CASE ReadFresh(p)
  <2>1. /\ level' = level /\ seen'[p] = Fold(Records(p)) /\ plan'[p] = None /\ pc'[p] = "plan"
        /\ ~DesiredIsRefused(level[p], Records(p).bindings)
    BY <1>0, <1>6 DEF ReadFresh, Read
  <2> QED
    BY <2>1 DEF PlanningOK, Fold
<1>7. CASE AppendLands(p)
  <2>1. at[p] = tail
    BY <1>7 DEF AppendLands, Matches
  <2>2. CASE pc[p] \in {"start", "bind"}
    BY <1>0, <1>1, <1>7, <2>1, <2>2 DEF AppendLands, ActivityOK
  <2>3. CASE pc[p] \notin {"start", "bind"}
    BY <1>0, <1>1, <1>7, <2>1, <2>3 DEF AppendLands, EndPass, Retain
  <2> QED
    BY <2>2, <2>3
<1>8. CASE ObserveForApply(p) \/ Begin(p)
  BY <1>0, <1>1, <1>8 DEF ObserveForApply, Begin, PlanningOK
<1>9. CASE Propose(p)
  <2> DEFINE observed == Observe(target, level[p])
  <2>1. PICK op \in First(Outstanding(level[p], seen[p].bindings, observed)) :
          Retain(p, PlanOf(level[p], op, observed, TailAfterPlan(p)))
    BY <1>9 DEF Propose
  <2> DEFINE x == PlanOf(level[p], op, observed, TailAfterPlan(p))
  <2>2. /\ plan'[p] = x /\ level' = level /\ seen' = seen /\ at' = at /\ tail' = tail
        /\ pc[p] = "plan" /\ pc'[p] = "propose" /\ ~PlanIsRefused(level[p], observed)
    BY <1>0, <1>9, <2>1 DEF Propose, Retain
  <2>3. at[p] = tail => Made(x)
    BY <2>1, <2>2, ProposedIsMade
  <2> HIDE DEF x
  <2>4. PICK y : y = x
    OBVIOUS
  <2>5. ~DesiredIsRefused(level[p], seen[p].bindings)
    BY <1>0, <2>2 DEF PlanningOK
  <2>6. at'[p] = tail' => Made(y)'
    BY <2>2, <2>3, <2>4, StepKeepsMade
  <2>7. at'[p] = tail' => Made(plan[p])'
    BY <2>2, <2>4, <2>6 DEF Made, MadeToBind, MadeToApply
  <2> QED
    BY <2>2, <2>5, <2>7 DEF PlanningOK
<1> QED
  BY <1>2, <1>3, <1>4, <1>5, <1>6, <1>7, <1>8, <1>9 DEF PassStep

-----------------------------------------------------------------------------
(* What the sessions are about to do.                                      *)

(* Two sessions with the same plan, snapshot and stage are alike.          *)
LEMMA AlikeSessions ==
  ASSUME NEW s, NEW i, SessionOK(s)',
         sessions'[i].plan = s.plan, sessions'[i].snapshot = s.snapshot,
         sessions'[i].stage = s.stage
  PROVE  SessionOK(sessions[i])'
  BY DEF SessionOK, Made, MadeToBind, MadeToApply, MayBind, NextFor, Complete, EffectOK

(* Every session keeps its claim, unless it is the one that commits.       *)
LEMMA StepKeepsSession ==
  ASSUME LevelsHaveComponents, WInv, [Next]_vars, NEW s \in Sessions, SessionOK(s),
         target' = target \/ s.stage # "committing"
  PROVE  SessionOK(s)'
<1>1. CASE Quiet
  BY <1>1, QuietKeepsSession
<1>2. ASSUME NEW b, Claims(b) PROVE SessionOK(s)'
  BY <1>2, ClaimsKeepsSession, Basics
<1>3. ASSUME NEW i \in 1 .. MaxSessions, Commits(i) PROVE SessionOK(s)'
  <2>1. target' = target => Quiet
    BY <1>3, CommitOf DEF Quiet
  <2> QED
    BY <1>1, <1>3, <2>1, CommitKeepsSession, Basics
<1> QED
  BY <1>1, <1>2, <1>3, StepEffects

(* The sessions of the next state that were there before.                  *)
LEMMA SessionsKept ==
  ASSUME LevelsHaveComponents, WInv, [Next]_vars,
         NEW i, NEW j \in 1 .. Len(sessions),
         sessions'[i].plan = sessions[j].plan, sessions'[i].snapshot = sessions[j].snapshot,
         sessions'[i].stage = sessions[j].stage,
         target' = target \/ j # 1
  PROVE  SessionOK(sessions[i])'
<1>1. PICK s : s = sessions[j]
  OBVIOUS
<1>2. s \in Sessions
  BY <1>1, Basics DEF TypeOK
<1>3. SessionOK(s) /\ (s.stage = "committing" => j = 1)
  BY <1>1 DEF WInv, MInv
<1>4. SessionOK(s)'
  BY <1>2, <1>3, StepKeepsSession
<1> QED
  BY <1>1, <1>4, AlikeSessions

(* A pass begins with a session that has seen the target as it is.         *)
LEMMA BeginKeepsSessions ==
  ASSUME LevelsHaveComponents, WInv, [Next]_vars, NEW p \in Connectors, Begin(p)
  PROVE  \A i \in 1 .. Len(sessions') : SessionOK(sessions[i])'
<1>0. sessions \in Seq(Sessions) /\ Len(sessions) \in Nat
  BY Basics DEF TypeOK
<1>1. PICK s : s = [client |-> p, plan |-> plan[p], snapshot |-> target, stage |-> "waiting"]
  OBVIOUS
<1>2. sessions' = Append(sessions, s) /\ pc[p] = "begin"
  BY <1>1 DEF Begin
<1>3. \A i \in 1 .. Len(sessions') :
        sessions'[i] = IF i \in 1 .. Len(sessions) THEN sessions[i] ELSE s
  BY <1>0, <1>2
<1>4. Quiet
  <2>1. ~AppendLands(p)
    BY <1>2 DEF AppendLands, Appends
  <2> QED
    BY <2>1, PassesAreQuiet DEF PassStep
<1>5. SessionOK(s)'
  <2>1. plan[p] # None /\ Made(plan[p]) /\ plan[p].op.kind # "bind"
    BY <1>2, NoneIsNoPlan, Basics DEF ActivityOK, PlanLabels, PlanningOK
  <2>2. OnlyAdvanced(plan[p].slice, journal.bindings, target, target)
    BY DEF OnlyAdvanced, SchemasAdvanced, ReceiptsAdvanced, ApiAdvanced
  <2>3. s.plan = plan[p] /\ s.snapshot = target /\ s.stage = "waiting"
    BY <1>1
  <2>4. SessionOK(s)
    BY <2>1, <2>2, <2>3 DEF SessionOK
  <2> QED
    BY <1>4, <2>4, QuietKeepsSession
<1>6. target' = target
  BY DEF Begin
<1>7. ASSUME NEW i \in 1 .. Len(sessions') PROVE SessionOK(sessions[i])'
  <2>1. CASE i \in 1 .. Len(sessions)
    BY <1>3, <1>6, <1>7, <2>1, SessionsKept
  <2>2. CASE i \notin 1 .. Len(sessions)
    BY <1>3, <1>5, <1>7, <2>2, AlikeSessions
  <2> QED
    BY <2>1, <2>2
<1> QED
  BY <1>7

(* A turn executes what its session may, or ends the session.              *)
LEMMA TurnKeepsSessions ==
  ASSUME LevelsHaveComponents, WInv, [Next]_vars, NEW i \in 1 .. MaxSessions, Turn(i)
  PROVE  \A k \in 1 .. Len(sessions') : SessionOK(sessions[k])'
<1>0. /\ i \in 1 .. Len(sessions) /\ sessions \in Seq(Sessions) /\ Len(sessions) \in Nat
  BY Basics DEF Turn, TurnIsStale, TurnIsRefused, TurnExecutes, Commits, CommitFails, Committing,
                OrphanEnds, Waiting, TypeOK
<1>1. CASE TurnExecutes(i)
  <2>1. /\ i = 1 /\ sessions' = [sessions EXCEPT ![i].stage = "committing"]
    BY <1>1 DEF TurnExecutes, Waiting, HoldsLock
  <2>2. /\ Len(sessions') = Len(sessions)
        /\ \A j \in 1 .. Len(sessions) : j # i => sessions'[j] = sessions[j]
    BY <1>0, <2>1
  <2>3. sessions[i] \in Sessions
    BY <1>0
  <2>4. PICK s : s = [sessions[i] EXCEPT !.stage = "committing"]
    OBVIOUS
  <2>5. /\ sessions'[i] = s /\ s.plan = sessions[i].plan /\ s.snapshot = sessions[i].snapshot
        /\ s.stage = "committing"
    BY <1>0, <2>1, <2>3, <2>4 DEF Sessions
  <2>6. SessionOK(s)
    <3>1. EffectOK(sessions[i].plan)
          /\ sessions[i].plan.observed.exposed = sessions[i].snapshot.exposed
      BY <1>1, ExecutesNext, Basics
    <3>2. SessionOK(sessions[i])
      BY <1>0 DEF WInv
    <3> QED
      BY <2>5, <3>1, <3>2 DEF SessionOK
  <2>7. Quiet /\ target' = target
    BY <1>1 DEF TurnExecutes, Quiet, Accepted, stream
  <2>8. SessionOK(s)'
    BY <2>6, <2>7, QuietKeepsSession
  <2>9. ASSUME NEW k \in 1 .. Len(sessions') PROVE SessionOK(sessions[k])'
    <3>1. CASE k = i
      BY <2>5, <2>8, <3>1, AlikeSessions
    <3>2. CASE k # i
      BY <2>2, <2>7, <2>9, <3>2, SessionsKept
    <3> QED
      BY <3>1, <3>2
  <2> QED
    BY <2>9
<1>2. CASE sessions' = Without(sessions, i)
  <2>1. /\ Len(sessions') = Len(sessions) - 1
        /\ \A j \in 1 .. Len(sessions) - 1 :
             sessions'[j] = IF j < i THEN sessions[j] ELSE sessions[j + 1]
    BY <1>0, <1>2, WithoutTyped
  <2>2. ASSUME NEW k \in 1 .. Len(sessions') PROVE SessionOK(sessions[k])'
    <3>1. PICK m \in 1 .. Len(sessions) :
            sessions'[k] = sessions[m] /\ m = IF k < i THEN k ELSE k + 1
      BY <1>0, <2>1, <2>2
    <3>2. target' = target \/ m # 1
      <4>1. CASE Commits(i)
        BY <3>1, <4>1, CommitOf
      <4>2. CASE ~Commits(i)
        BY <4>2 DEF Turn, TurnIsStale, TurnIsRefused, TurnExecutes, CommitFails, OrphanEnds
      <4> QED
        BY <4>1, <4>2
    <3> QED
      BY <3>1, <3>2, SessionsKept
  <2> QED
    BY <2>2
<1> QED
  BY <1>1, <1>2 DEF Turn, TurnIsStale, TurnIsRefused, Commits, CommitFails, OrphanEnds

(* A step that is no turn leaves the plans of the sessions as they are.    *)
LEMMA PassKeepsSessions ==
  ASSUME LevelsHaveComponents, WInv, [Next]_vars,
         NEW p \in Connectors, PassStep(p) \/ Abandon(p)
  PROVE  \A i \in 1 .. Len(sessions') : SessionOK(sessions[i])'
<1>0. sessions \in Seq(Sessions) /\ Len(sessions) \in Nat /\ target' = target
  BY Basics, PassesAreQuiet DEF TypeOK
<1>1. CASE Begin(p)
  BY <1>1, BeginKeepsSessions
<1>2. CASE Abandon(p)
  <2>1. sessions' = [i \in DOMAIN sessions |->
                       IF sessions[i].client = p THEN [sessions[i] EXCEPT !.client = None]
                       ELSE sessions[i]]
    BY <1>2 DEF Abandon
  <2>2. \A i \in 1 .. Len(sessions) : sessions[i] \in Sessions
    BY <1>0
  <2>3. /\ DOMAIN sessions' = 1 .. Len(sessions)
        /\ \A i \in 1 .. Len(sessions) : /\ sessions'[i].plan = sessions[i].plan
                                         /\ sessions'[i].stage = sessions[i].stage
                                         /\ sessions'[i].snapshot = sessions[i].snapshot
    BY <1>0, <2>1, <2>2 DEF Sessions
  <2>4. sessions' \in Seq(Sessions)
    BY NextTyped, Basics DEF TInv, TypeOK
  <2>5. Len(sessions') = Len(sessions)
    BY <1>0, <2>3, <2>4
  <2> QED
    BY <1>0, <2>3, <2>5, SessionsKept
<1>3. CASE PassStep(p) /\ ~Begin(p)
  <2>1. sessions' = sessions
    BY <1>3 DEF PassStep, Accept, CheckTail, ReadAgain, ReadRefused, ReadPlan, ReadFresh, Read,
                AppendLands, AppendConflicts, ObserveForApply, NothingToPlan, Propose, database
  <2> QED
    BY <1>0, <2>1, SessionsKept
<1> QED
  BY <1>1, <1>2, <1>3

(* WInv is inductive.                                                      *)
LEMMA NextKeepsPlans == ASSUME LevelsHaveComponents, WInv, [Next]_vars PROVE WInv'
<1> USE DEF stream, database
<1>1. /\ OInv' /\ MInv' /\ LevelsAgree' /\ ClaimsAreAccepted'
      /\ \A e \in flying' : e.kind = "BindingEstablished" => BindingOK(e.binding)'
  BY NextKeepsOwner, NextKeepsFreshness, StepKeepsLevels, StepKeepsFlying, Basics
<1>2. \A p \in Connectors : PlanningOK(p)'
  <2>1. CASE UNCHANGED vars
    BY <2>1, OthersKeepPlanning DEF vars
  <2>2. ASSUME NEW p \in Connectors, PassStep(p) \/ Abandon(p), NEW q \in Connectors
        PROVE  PlanningOK(q)'
    <3>1. tail' \in {tail, tail + 1}
      BY <2>2, Footprint, Basics DEF AppendLands, Land
    <3> QED
      BY <2>2, <3>1, Footprint, PassKeepsPlanning, OthersKeepPlanning, Basics
  <2>3. CASE LandsLate
    BY <2>3, OthersKeepPlanning DEF LandsLate, Land
  <2>4. ASSUME NEW i \in 1 .. MaxSessions, Turn(i), NEW q \in Connectors
        PROVE  PlanningOK(q)'
    BY <2>4, TurnTells, OthersKeepPlanning, Basics
  <2> QED
    BY <2>1, <2>2, <2>3, <2>4 DEF Next
<1>3. \A i \in 1 .. Len(sessions') : SessionOK(sessions[i])'
  <2>1. CASE UNCHANGED <<sessions, target>>
    BY <2>1, SessionsKept
  <2> QED
    BY <2>1, PassKeepsSessions, TurnKeepsSessions DEF Next, LandsLate, vars
<1> QED
  BY <1>1, <1>2, <1>3 DEF WInv

(* At first there are no plans, no levels and no sessions.                 *)
LEMMA InitHasPlans == ASSUME Init PROVE WInv
<1>1. OInv
  BY InitHasStream DEF Init, OInv, ClaimOK, Claiming, EmptyJournal, ExclusiveOwner
<1>2. MInv
  BY InitTyped DEF Init, MInv, MigrationsAreFresh
<1>3. Accepted = {} /\ journal.bindings = {} /\ flying = {} /\ Len(sessions) = 0
  BY DEF Init, Accepted, EmptyJournal
<1>4. \A p \in Connectors : PlanningOK(p)
  BY DEF Init, PlanningOK
<1> QED
  BY <1>1, <1>2, <1>3, <1>4 DEF WInv, LevelsAgree, ClaimsAreAccepted

-----------------------------------------------------------------------------
(* Success receipts *)

(* A pass that is about to report success has brought it about, or found   *)
(* it so.                                                                  *)
TruthOK(p) ==
  pc[p] = "succeed" =>
    IF plan[p].op.kind = "bind"
    THEN BindingFor(plan[p].slice, plan[p].op.context) \in journal.bindings
    ELSE OperationSatisfied(plan[p].op, Observe(target, plan[p].slice))

(* A session applies the plan that its client still retains.               *)
ClientsOK ==
  \A i \in 1 .. Len(sessions) :
    sessions[i].client # None => plan[sessions[i].client] = sessions[i].plan

XInv ==
  /\ WInv
  /\ target.open = {}
  /\ ClientsOK
  /\ \A p \in Connectors : TruthOK(p)

(* No step of a pass is one of a pass that waits for its session.          *)
LEMMA WaitersWait ==
  ASSUME WInv, NEW p \in Connectors, PassStep(p)
  PROVE  pc[p] # "apply"
<1>1. \A d \in Slices : Accept(p, d) => pc[p] # "apply"
  BY NoneIsNoValue, Basics DEF Accept, ActivityOK
<1> QED
  BY <1>1 DEF PassStep, CheckTail, Loads, ReadAgain, ReadRefused, ReadPlan, ReadFresh, Read,
     AppendLands, Appends, AppendConflicts, ObserveForApply, NothingToPlan, Propose, Begin

(* Whoever waits for a session keeps its plan.                             *)
LEMMA NextKeepsClients == ASSUME WInv, ClientsOK, [Next]_vars PROVE ClientsOK'
<1> USE DEF stream, database
<1>0. /\ sessions \in Seq(Sessions) /\ Len(sessions) \in Nat
      /\ \A j \in 1 .. Len(sessions) : sessions[j].client # None =>
           /\ sessions[j].client \in Connectors /\ pc[sessions[j].client] = "apply"
           /\ plan[sessions[j].client] = sessions[j].plan
  BY ClientWaits, Basics DEF TypeOK, ClientsOK
<1>1. ASSUME \A i \in 1 .. Len(sessions') : sessions'[i].client # None =>
               \E j \in 1 .. Len(sessions) : /\ sessions'[i].client = sessions[j].client
                                             /\ sessions'[i].plan = sessions[j].plan
                                             /\ plan'[sessions[j].client] = plan[sessions[j].client]
      PROVE  ClientsOK'
  BY <1>0, <1>1 DEF ClientsOK
<1>2. ASSUME NEW p \in Connectors, Begin(p) PROVE ClientsOK'
  <2>1. PICK s : s = [client |-> p, plan |-> plan[p], snapshot |-> target, stage |-> "waiting"]
    OBVIOUS
  <2>2. sessions' = Append(sessions, s) /\ plan' = plan /\ s.client = p /\ s.plan = plan[p]
    BY <1>2, <2>1 DEF Begin
  <2>3. \A i \in 1 .. Len(sessions') :
          sessions'[i] = IF i \in 1 .. Len(sessions) THEN sessions[i] ELSE s
    BY <1>0, <2>2
  <2> QED
    BY <1>0, <2>2, <2>3 DEF ClientsOK
<1>3. ASSUME NEW p \in Connectors, PassStep(p), ~Begin(p) PROVE ClientsOK'
  <2>1. sessions' = sessions
    BY <1>3 DEF PassStep, Accept, CheckTail, ReadAgain, ReadRefused, ReadPlan, ReadFresh, Read,
                AppendLands, AppendConflicts, ObserveForApply, NothingToPlan, Propose
  <2>2. \A q \in Connectors : pc[q] = "apply" => plan'[q] = plan[q]
    BY <1>3, WaitersWait, Footprint, Basics
  <2> QED
    BY <1>0, <1>1, <2>1, <2>2
<1>4. ASSUME NEW p \in Connectors, Abandon(p) PROVE ClientsOK'
  <2>1. sessions' = [i \in DOMAIN sessions |->
                       IF sessions[i].client = p THEN [sessions[i] EXCEPT !.client = None]
                       ELSE sessions[i]]
    BY <1>4 DEF Abandon
  <2>2. \A i \in 1 .. Len(sessions) : sessions[i] \in Sessions
    BY <1>0
  <2>3. /\ DOMAIN sessions' = 1 .. Len(sessions)
        /\ \A i \in 1 .. Len(sessions) :
             /\ sessions[i].client = p => sessions'[i].client = None
             /\ sessions[i].client # p => sessions'[i] = sessions[i]
    BY <1>0, <2>1, <2>2 DEF Sessions
  <2>4. sessions' \in Seq(Sessions)
    BY NextTyped, Basics DEF TInv, TypeOK
  <2>5. Len(sessions') = Len(sessions)
    BY <1>0, <2>3, <2>4
  <2>6. \A q \in Connectors : q # p => plan'[q] = plan[q]
    BY <1>4, Footprint, Basics
  <2> QED
    BY <1>0, <1>1, <2>3, <2>5, <2>6
<1>5. ASSUME NEW i \in 1 .. MaxSessions, Turn(i) PROVE ClientsOK'
  <2>1. plan' = plan /\ i \in 1 .. Len(sessions)
    BY <1>5 DEF Turn, TurnIsStale, TurnIsRefused, TurnExecutes, Commits, CommitFails, Committing,
                OrphanEnds, Waiting
  <2>2. CASE TurnExecutes(i)
    <3>1. sessions' = [sessions EXCEPT ![i].stage = "committing"]
      BY <2>2 DEF TurnExecutes
    <3>2. \A j \in 1 .. Len(sessions) : sessions[j] \in Sessions
      BY <1>0
    <3>3. /\ Len(sessions') = Len(sessions)
          /\ \A j \in 1 .. Len(sessions) : /\ sessions'[j].client = sessions[j].client
                                           /\ sessions'[j].plan = sessions[j].plan
      BY <1>0, <3>1, <3>2 DEF Sessions
    <3> QED
      BY <1>1, <2>1, <3>3
  <2>3. CASE sessions' = Without(sessions, i)
    <3>1. /\ Len(sessions') = Len(sessions) - 1
          /\ \A j \in 1 .. Len(sessions) - 1 :
               sessions'[j] = IF j < i THEN sessions[j] ELSE sessions[j + 1]
      BY <1>0, <2>1, <2>3, WithoutTyped
    <3>2. \A k \in 1 .. Len(sessions') : \E m \in 1 .. Len(sessions) : sessions'[k] = sessions[m]
      BY <1>0, <2>1, <3>1
    <3> QED
      BY <1>1, <2>1, <3>2
  <2> QED
    BY <1>5, <2>2, <2>3 DEF Turn, TurnIsStale, TurnIsRefused, Commits, CommitFails, OrphanEnds
<1>6. CASE UNCHANGED <<plan, sessions>>
  BY <1>6 DEF ClientsOK
<1> QED
  BY <1>2, <1>3, <1>4, <1>5, <1>6 DEF Next, LandsLate, vars

(* A commit has its postcondition, and opens nothing to PUBLIC.            *)
LEMMA CommitSatisfies ==
  ASSUME WInv, target.open = {}, NEW i \in 1 .. MaxSessions, Commits(i)
  PROVE  LET x == sessions[1].plan IN
         /\ OperationSatisfied(x.op, Observe(target', x.slice))
         /\ target'.open = {}
<1> DEFINE x == sessions[1].plan
<1>1. /\ x.op \in First(Outstanding(x.slice, journal.bindings, x.observed)) /\ x.op.kind # "bind"
      /\ x.slice \in Slices /\ target \in TargetStates /\ CanExecute(target, x.op)
      /\ target' = Execute(target, x.op)
  BY CommitOf DEF SessionOK, MadeToApply, EffectOK
<1> QED
  BY <1>1, ExecuteSatisfies

(* What is true of a level's operation, another commit leaves true.        *)
LEMMA CommitKeepsTruth ==
  ASSUME LevelsHaveComponents, WInv, target.open = {}, NEW i \in 1 .. MaxSessions, Commits(i),
         NEW x, Made(x), x.op.kind # "bind",
         OperationSatisfied(x.op, Observe(target, x.slice))
  PROVE  OperationSatisfied(x.op, Observe(target', x.slice))
<1> DEFINE y == sessions[1].plan
           d == x.slice
<1>1. /\ MadeToApply(y) /\ y.slice \in Accepted /\ y.slice \in Slices
      /\ y.op \in First(Outstanding(y.slice, journal.bindings, y.observed)) /\ y.op.kind # "bind"
      /\ target \in TargetStates /\ sessions[1].snapshot \in TargetStates
      /\ y.observed.exposed = sessions[1].snapshot.exposed
      /\ OnlyAdvanced(y.slice, journal.bindings, sessions[1].snapshot, target)
      /\ CanExecute(target, y.op) /\ target' = Execute(target, y.op)
  BY CommitOf DEF SessionOK, Made, MadeToApply, EffectOK, Sessions
<1>2. MadeToApply(x) /\ d \in Accepted /\ y.slice = d
  BY <1>1, OneOwner, Basics DEF Made, MadeToApply
<1>3. /\ x.op \in First(Outstanding(d, journal.bindings, x.observed))
      /\ x.op.kind = "api" => \A c \in DesiredContexts(d) : c.schema \in target.schemas
  BY <1>2, ApiIsAlone DEF MadeToApply
<1> HIDE DEF d, y
<1> QED
  BY <1>1, <1>2, <1>3, ExecuteKeepsSatisfied DEF d

(* How a pass comes to report success.                                     *)
LEMMA ComesToSucceed ==
  ASSUME WInv, [Next]_vars, NEW p \in Connectors, pc'[p] = "succeed"
  PROVE  /\ plan'[p] = plan[p]
         /\ \/ pc[p] = "succeed"
            \/ /\ AppendLands(p) /\ pc[p] = "bind"
            \/ ObserveForApply(p) /\ Recovered(p)
            \/ \E i \in 1 .. MaxSessions : Commits(i) /\ sessions[i].client = p
<1> USE DEF stream, database, Goto
<1>0. p \in DOMAIN pc /\ ActivityOK(p)
  BY Basics DEF TypeOK
<1>1. CASE UNCHANGED <<plan, pc>>
  BY <1>1
<1>2. ASSUME NEW q \in Connectors, PassStep(q) \/ Abandon(q), q # p
      PROVE  plan'[p] = plan[p] /\ pc[p] = "succeed"
  BY <1>2, Footprint, Basics
<1>3. ASSUME PassStep(p) \/ Abandon(p)
      PROVE  /\ plan'[p] = plan[p]
             /\ \/ pc[p] = "succeed"
                \/ /\ AppendLands(p) /\ pc[p] = "bind"
                \/ ObserveForApply(p) /\ Recovered(p)
  <2>1. CASE AppendLands(p)
    BY <1>0, <2>1 DEF AppendLands, EndPass, ActivityOK
  <2>2. CASE ObserveForApply(p)
    BY <1>0, <2>2 DEF ObserveForApply
  <2>3. ~(\/ CheckTail(p) \/ ReadAgain(p) \/ ReadRefused(p) \/ ReadPlan(p) \/ ReadFresh(p)
          \/ AppendConflicts(p) \/ NothingToPlan(p) \/ Propose(p) \/ Begin(p) \/ Abandon(p))
    BY <1>0 DEF CheckTail, Loads, ReadAgain, ReadRefused, ReadPlan, ReadFresh, AppendConflicts,
                NothingToPlan, Propose, Begin, Abandon, EndPass
  <2>4. ASSUME NEW d \in Slices, Accept(p, d) PROVE plan' = plan /\ pc' = pc
    BY <2>4 DEF Accept
  <2> QED
    BY <1>3, <2>1, <2>2, <2>3, <2>4 DEF PassStep
<1>4. ASSUME NEW i \in 1 .. MaxSessions, Turn(i)
      PROVE  /\ plan'[p] = plan[p]
             /\ pc[p] = "succeed" \/ (Commits(i) /\ sessions[i].client = p)
  <2>1. i \in 1 .. Len(sessions)
    BY <1>4 DEF Turn, TurnIsStale, TurnIsRefused, TurnExecutes, Commits, CommitFails, Committing,
                OrphanEnds, Waiting
  <2>2. CASE Commits(i)
    BY <1>0, <2>2 DEF Commits, Answer
  <2>3. CASE TurnIsStale(i) \/ TurnIsRefused(i)
    <3>1. PICK label \in {"stale?", "failed?"} :
            pc' = [pc EXCEPT ![sessions[i].client] = label] /\ plan' = plan
      BY <2>3 DEF TurnIsStale, TurnIsRefused
    <3> QED
      BY <1>0, <3>1
  <2>4. CASE TurnExecutes(i) \/ OrphanEnds(i)
    BY <2>4 DEF TurnExecutes, OrphanEnds
  <2>5. CASE CommitFails(i)
    BY <1>0, <2>5 DEF CommitFails, Answer
  <2> QED
    BY <1>4, <2>2, <2>3, <2>4, <2>5 DEF Turn
<1> QED
  BY <1>1, <1>2, <1>3, <1>4 DEF Next, LandsLate, vars

(* What a pass is about to report stays true until it has reported it.     *)
LEMMA StepKeepsTruth ==
  ASSUME LevelsHaveComponents, XInv, WInv', [Next]_vars, NEW p \in Connectors, pc'[p] = "succeed"
  PROVE  TruthOK(p)'
<1> USE DEF stream, database
<1>0. WInv /\ target.open = {}
  BY DEF XInv
<1>1. PICK x : x = plan[p]
  OBVIOUS
<1>2. plan'[p] = x
  BY <1>0, <1>1, ComesToSucceed
<1>3. /\ target' = target \/ \E i \in 1 .. MaxSessions : Commits(i)
      /\ journal'.bindings = journal.bindings \/ \E b : Claims(b)
  BY <1>0, StepEffects, CommitOf DEF Quiet, Claims
<1>4. CASE x.op.kind = "bind"
  <2> DEFINE c == BindingFor(x.slice, x.op.context)
  <2>1. CASE c \in journal.bindings
    <3>1. ASSUME NEW b, Claims(b) PROVE c \in journal'.bindings
      BY <1>0, <2>1, <3>1, ClaimsNext DEF Quiet
    <3>2. c \in journal'.bindings
      BY <1>3, <2>1, <3>1
    <3> QED
      BY <1>2, <1>4, <3>2 DEF TruthOK
  <2>2. CASE AppendLands(p) /\ pc[p] = "bind"
    <3>1. journal' = Appended(journal, BindingEstablished(c)) /\ JournalTyped(journal)
      BY <1>0, <1>1, <2>2, Basics DEF AppendLands, Land, Event, TypeOK
    <3>2. c \in journal'.bindings
      BY <3>1, AppendedBindings DEF BindingEstablished, Claim
    <3> QED
      BY <1>2, <1>4, <3>2 DEF TruthOK
  <2>3. pc[p] \notin {"observe", "apply"}
    BY <1>0, <1>1, <1>4, Basics DEF PlanningOK
  <2>4. ASSUME NEW i \in 1 .. MaxSessions, Commits(i), sessions[i].client = p
        PROVE  pc[p] = "apply"
    <3>1. i \in 1 .. Len(sessions) /\ p # None
      BY <2>4, NoneIsNoClient DEF Commits, Committing
    <3> QED
      BY <1>0, <2>4, <3>1, ClientWaits, Basics
  <2>5. pc[p] = "succeed" => c \in journal.bindings
    BY <1>1, <1>4 DEF XInv, TruthOK
  <2> QED
    BY <1>0, <2>1, <2>2, <2>3, <2>4, <2>5, ComesToSucceed DEF ObserveForApply
<1>5. CASE x.op.kind # "bind"
  <2>1. OperationSatisfied(x.op, Observe(target', x.slice))
    <3>1. CASE OperationSatisfied(x.op, Observe(target, x.slice)) /\ Made(x)
      BY <1>0, <1>3, <1>5, <3>1, CommitKeepsTruth
    <3>2. ASSUME NEW i \in 1 .. MaxSessions, Commits(i), sessions[i].client = p
          PROVE  OperationSatisfied(x.op, Observe(target', x.slice))
      <4>1. i = 1 /\ 1 \in 1 .. Len(sessions) /\ p # None
        BY <1>0, <3>2, CommitOf, NoneIsNoClient
      <4>2. sessions[1].plan = x
        BY <1>1, <3>2, <4>1 DEF XInv, ClientsOK
      <4> QED
        BY <1>0, <3>2, <4>2, CommitSatisfies
    <3>3. ~(AppendLands(p) /\ pc[p] = "bind")
      BY <1>0, <1>1, <1>5, Basics DEF ActivityOK
    <3>4. ASSUME pc[p] = "succeed" \/ (ObserveForApply(p) /\ Recovered(p))
          PROVE  OperationSatisfied(x.op, Observe(target, x.slice)) /\ Made(x)
      <4>1. pc[p] \in PlanLabels /\ pc[p] \notin {"propose", "idle"}
        BY <3>4 DEF ObserveForApply, PlanLabels, Appends
      <4>2. Made(x) /\ x.slice = level[p]
        BY <1>0, <1>1, <1>2, <4>1, NoneIsNoPlan, Basics DEF PlanningOK, ActivityOK
      <4> QED
        BY <1>1, <1>5, <3>4, <4>2 DEF XInv, TruthOK, Recovered
    <3> QED
      BY <1>0, <3>1, <3>2, <3>3, <3>4, ComesToSucceed
  <2> QED
    BY <1>2, <1>5, <2>1 DEF TruthOK
<1> QED
  BY <1>4, <1>5

(* XInv is inductive.                                                      *)
LEMMA NextKeepsTruth == ASSUME LevelsHaveComponents, XInv, [Next]_vars PROVE XInv'
<1>1. WInv' /\ ClientsOK'
  BY NextKeepsPlans, NextKeepsClients DEF XInv
<1>2. target'.open = {}
  BY StepEffects, CommitSatisfies DEF XInv, Quiet, Claims
<1>3. \A p \in Connectors : TruthOK(p)'
  BY <1>1, StepKeepsTruth DEF TruthOK
<1> QED
  BY <1>1, <1>2, <1>3 DEF XInv

(* However late a binding lands, a client dies or a transaction commits,   *)
(* the operation a connector reports to have succeeded has its             *)
(* postcondition when the receipt lands: nothing that the others did in    *)
(* between undid it.  It takes that nobody opened a schema to PUBLIC, of   *)
(* whose grants the connector knows nothing, and that no level is empty:   *)
(* one without bindings would not keep the others from the target.         *)
THEOREM SucceededCorrect ==
  LevelsHaveComponents /\ (\A t \in InitialTargets : t.open = {}) => (Spec => SucceededIsTrue)
<1> SUFFICES ASSUME LevelsHaveComponents, \A t \in InitialTargets : t.open = {}
             PROVE  Spec => SucceededIsTrue
  OBVIOUS
<1>1. Init => XInv
  BY InitHasPlans DEF Init, XInv, ClientsOK, TruthOK
<1>2. XInv /\ [Next]_vars => XInv'
  BY NextKeepsTruth
<1>3. XInv => [\A p \in Connectors :
                 LET op == plan[p].op IN
                 AppendLands(p) /\ pc[p] = "succeed" =>
                   IF op.kind = "bind"
                   THEN BindingFor(plan[p].slice, op.context) \in journal.bindings
                   ELSE OperationSatisfied(op, Observe(target, plan[p].slice))]_vars
  BY DEF XInv, TruthOK
<1> QED
  BY <1>1, <1>2, <1>3, PTL DEF Spec, SucceededIsTrue

-----------------------------------------------------------------------------
(* The refinement *)

(* The operators of the promise are the planner's and the target's own.    *)
LEMMA PromisedObservation == ASSUME NEW t, NEW d PROVE Promise!Observe(t, d) = Observe(t, d)
  BY DEF Promise!Observe, Promise!DesiredSchemas, Promise!DesiredContexts, Promise!ContextsOf,
     Observe, DesiredSchemas, DesiredContexts, ContextsOf

(* The promise refuses the same levels and the same observations.          *)
LEMMA PromisedRefusals ==
  ASSUME NEW d, NEW bindings, NEW observed
  PROVE  /\ Promise!DesiredIsRefused(d, bindings) <=> DesiredIsRefused(d, bindings)
         /\ Promise!PlanIsRefused(d, observed) <=> PlanIsRefused(d, observed)
  BY DEF Promise!DesiredIsRefused, DesiredIsRefused, Promise!TargetOwned, TargetOwned,
     Promise!PlanIssues, PlanIssues, Promise!BindingConflict, BindingConflict,
     Promise!DesiredContexts, DesiredContexts, Promise!ContextsOf, ContextsOf,
     Promise!MigrationsOf, MigrationsOf, Promise!BindingFor, BindingFor,
     Promise!PlanIsRefused, PlanIsRefused, Promise!MigrationMutated, MigrationMutated,
     Promise!Receipted, Receipted, Promise!MatchingReceipt, MatchingReceipt,
     Promise!InputUnbound, InputUnbound

(* The promise asks for the same operation next.                           *)
LEMMA PromisedFirst ==
  ASSUME NEW d, NEW bindings, NEW observed
  PROVE  Promise!First(Promise!Outstanding(d, bindings, observed))
           = First(Outstanding(d, bindings, observed))
  BY DEF Promise!First, First, Promise!Before, Before, Promise!Outstanding, Outstanding,
     Promise!BindSteps, BindSteps, Promise!MetadataSteps, MetadataSteps,
     Promise!SchemaSteps, SchemaSteps, Promise!MigrationSteps, MigrationSteps,
     Promise!ApiSteps, ApiSteps, Promise!Ranked, Ranked, Promise!ComponentsOf, ComponentsOf,
     Promise!Op, Op, Promise!DesiredDigest, DesiredDigest,
     Promise!EstablishBinding, EstablishBinding, Promise!EnsureMetadata, EnsureMetadata,
     Promise!EnsureSchema, EnsureSchema, Promise!ApplyMigration, ApplyMigration,
     Promise!ConfigureApi, ConfigureApi, Promise!WantedExposure, WantedExposure,
     Promise!GrantsMatch, GrantsMatch, Promise!WantsAnonRead, WantsAnonRead,
     Promise!Bound, Bound, Promise!Receipted, Receipted,
     Promise!DesiredContexts, DesiredContexts, Promise!ContextsOf, ContextsOf

(* The promise executes an operation, or cannot, just as the target does.  *)
LEMMA PromisedExecution ==
  ASSUME NEW t, NEW op
  PROVE  /\ Promise!CanExecute(t, op) <=> CanExecute(t, op)
         /\ Promise!Execute(t, op) = Execute(t, op)
  BY DEF Promise!CanExecute, CanExecute, Promise!Execute, Execute,
     Promise!Receipted, Receipted, Promise!MatchingReceipt, MatchingReceipt,
     Promise!PolicySchemas, PolicySchemas, Promise!PolicyContexts, PolicyContexts,
     Promise!ContextsOf, ContextsOf, Promise!WantsAnonRead, WantsAnonRead

(* The promise claims a binding as the journal does.                       *)
LEMMA PromisedClaim ==
  ASSUME NEW d, NEW c, NEW bindings
  PROVE  Promise!Claim(bindings, Promise!BindingFor(d, c)) = Claim(bindings, BindingFor(d, c))
  BY DEF Promise!Claim, Claim, Promise!BindingFor, BindingFor

(* Core's levels, graph by graph.                                          *)
LevelIn(lev, g) ==
  IF \E p \in Connectors : lev[p] # None /\ lev[p].graph = g
  THEN lev[CHOOSE p \in Connectors : lev[p] # None /\ lev[p].graph = g]
  ELSE None

Levels == [g \in Graphs |-> LevelIn(level, g)]

(* The level of a graph is the one that its connectors have accepted.      *)
LEMMA LevelIsAccepted ==
  ASSUME NEW lev, NEW p \in Connectors, lev[p] # None,
         \A q \in Connectors : lev[q] # None /\ lev[q].graph = lev[p].graph => lev[q] = lev[p]
  PROVE  LevelIn(lev, lev[p].graph) = lev[p]
<1> DEFINE q == CHOOSE q \in Connectors : lev[q] # None /\ lev[q].graph = lev[p].graph
<1>1. q \in Connectors /\ lev[q] # None /\ lev[q].graph = lev[p].graph
  OBVIOUS
<1>2. lev[q] = lev[p]
  BY <1>1
<1> QED
  BY <1>2 DEF LevelIn

(* What a connector has accepted is the level of its graph.                *)
LEMMA AcceptedLevels ==
  ASSUME LevelsAgree, Accepted \subseteq Slices, NEW d \in Accepted
  PROVE  d.graph \in Graphs /\ Levels[d.graph] = d /\ d # None
<1>1. PICK p \in Connectors : level[p] = d /\ d # None
  BY DEF Accepted
<1>2. \A q \in Connectors : level[q] # None /\ level[q].graph = d.graph => level[q] = d
  BY DEF LevelsAgree, Accepted
<1>3. LevelIn(level, d.graph) = d
  BY <1>1, <1>2, LevelIsAccepted
<1> QED
  BY <1>1, <1>3, SlicesAreTyped DEF Levels

(* A step that leaves bindings, target and levels is a stutter.            *)
LEMMA Stutters ==
  ASSUME journal'.bindings = journal.bindings, target' = target, Levels' = Levels
  PROVE  UNCHANGED Promise!vars
  BY DEF Promise!vars, Levels, LevelIn, LevelOf

(* The next operation of a level is the next operation of the promise.     *)
LEMMA PromisedNext ==
  ASSUME WInv, NEW d \in Accepted, NEW op, NextFor(d, op), ~DesiredIsRefused(d, journal.bindings)
  PROVE  op \in Promise!NextOperations(d.graph)
<1>1. d.graph \in Graphs /\ Levels[d.graph] = d
  BY AcceptedLevels, Basics
<1>2. Promise!NextOperations(d.graph) =
        LET observed == Promise!Observe(target, Levels[d.graph]) IN
        IF \/ Promise!DesiredIsRefused(Levels[d.graph], journal.bindings)
           \/ Promise!PlanIsRefused(Levels[d.graph], observed)
        THEN {}
        ELSE Promise!First(Promise!Outstanding(Levels[d.graph], journal.bindings, observed))
  BY DEF Promise!NextOperations, Levels, LevelIn, LevelOf
<1> QED
  BY <1>1, <1>2, PromisedObservation, PromisedRefusals, PromisedFirst DEF NextFor

(* A binding that lands is the one promised next, or was there.            *)
LEMMA ClaimsRefine ==
  ASSUME WInv, NEW b, Claims(b), Levels' = Levels
  PROVE  Promise!Next \/ UNCHANGED Promise!vars
<1>1. CASE Quiet
  BY <1>1, Stutters DEF Quiet
<1>2. CASE ~Quiet
  <2>1. PICK d \in Accepted : \E c \in DesiredContexts(d) :
          /\ b = BindingFor(d, c) /\ ~DesiredIsRefused(d, journal.bindings)
          /\ NextFor(d, EstablishBinding(d, c))
    BY <1>2, ClaimsNext
  <2>2. PICK c \in DesiredContexts(d) :
          /\ b = BindingFor(d, c) /\ ~DesiredIsRefused(d, journal.bindings)
          /\ NextFor(d, EstablishBinding(d, c))
    BY <2>1
  <2> DEFINE op == EstablishBinding(d, c)
  <2>3. op.kind = "bind" /\ op.context = c
    BY DEF EstablishBinding, Op
  <2> HIDE DEF op
  <2>4. op \in Promise!NextOperations(d.graph)
    BY <2>2, PromisedNext DEF op
  <2>5. d.graph \in Graphs /\ Levels[d.graph] = d /\ d # None
    BY AcceptedLevels, Basics
  <2>6. journal'.bindings
          = Promise!Claim(journal.bindings, Promise!BindingFor(Levels[d.graph], op.context))
    BY <2>2, <2>3, <2>5, PromisedClaim DEF Claims
  <2>7. Promise!Bind(d.graph)
    BY <2>3, <2>4, <2>5, <2>6 DEF Promise!Bind, Levels, LevelIn, LevelOf, Claims
  <2> QED
    BY <2>5, <2>7 DEF Promise!Next, Promise!Step
<1> QED
  BY <1>1, <1>2

(* A commit is the promised operation, or changes nothing.                 *)
LEMMA CommitRefines ==
  ASSUME WInv, NEW i \in 1 .. MaxSessions, Commits(i), Levels' = Levels
  PROVE  Promise!Next \/ UNCHANGED Promise!vars
<1> DEFINE x == sessions[1].plan
           d == x.slice
<1>1. /\ journal' = journal /\ target' = Execute(target, x.op) /\ x.op.kind # "bind"
      /\ d \in Accepted /\ ~TargetOwned(d, journal.bindings) /\ EffectOK(x)
      /\ \A c \in DesiredContexts(d) : ~PlanIssues(c)
  BY CommitOf DEF SessionOK, Made, MadeToApply
<1>2. ~DesiredIsRefused(d, journal.bindings)
  BY <1>1, OwnersAreNotRefused, Basics
<1>3. CASE target' = target
  BY <1>1, <1>3, Stutters
<1>4. CASE target' # target
  <2>1. NextFor(d, x.op) /\ CanExecute(target, x.op)
    BY <1>1, <1>4 DEF EffectOK
  <2>2. x.op \in Promise!NextOperations(d.graph)
    BY <1>1, <1>2, <2>1, PromisedNext
  <2>3. Promise!CanExecute(target, x.op) /\ target' = Promise!Execute(target, x.op)
    BY <1>1, <2>1, PromisedExecution
  <2>4. d.graph \in Graphs /\ Levels[d.graph] = d /\ d # None
    BY <1>1, AcceptedLevels, Basics
  <2>5. Promise!Advance(d.graph)
    BY <1>1, <2>2, <2>3, <2>4 DEF Promise!Advance, Levels, LevelIn, LevelOf
  <2> QED
    BY <2>4, <2>5 DEF Promise!Next, Promise!Step
<1> QED
  BY <1>3, <1>4

(* A level that a connector accepts is new to the promise, or known.       *)
LEMMA AcceptRefines ==
  ASSUME WInv, NEW p \in Connectors, NEW d \in Slices, Accept(p, d)
  PROVE  Promise!Next \/ UNCHANGED Promise!vars
<1>1. /\ level' = [level EXCEPT ![p] = d] /\ level[p] = None /\ d # None
      /\ \A q \in Connectors : level[q] # None /\ level[q].graph = d.graph => level[q] = d
      /\ journal' = journal /\ target' = target /\ d.graph \in Graphs
      /\ level'[p] = d /\ \A q \in Connectors \ {p} : level'[q] = level[q]
  BY NoneIsNoValue, SlicesAreTyped, Basics DEF Accept, stream, database, TypeOK
<1>2. Levels'[d.graph] = d
  <2>1. /\ level'[p] # None /\ level'[p].graph = d.graph
        /\ \A q \in Connectors :
             level'[q] # None /\ level'[q].graph = level'[p].graph => level'[q] = level'[p]
    BY <1>1
  <2>2. LevelIn(level', level'[p].graph) = level'[p]
    BY <2>1, LevelIsAccepted
  <2> QED
    BY <1>1, <2>1, <2>2 DEF Levels, LevelIn
<1>3. ASSUME NEW g \in Graphs \ {d.graph} PROVE Levels'[g] = Levels[g]
  <2>1. CASE \E q \in Connectors : level[q] # None /\ level[q].graph = g
    <3>1. PICK q \in Connectors : level[q] # None /\ level[q].graph = g
      BY <2>1
    <3>2. \A r \in Connectors : level[r] # None /\ level[r].graph = g => level[r] = level[q]
      BY <3>1, Basics DEF LevelsAgree, Accepted
    <3>3. LevelIn(level, g) = level[q]
      BY <3>1, <3>2, LevelIsAccepted
    <3>4. level'[q] = level[q]
      BY <1>1, <3>1
    <3>5. \A r \in Connectors : level'[r] # None /\ level'[r].graph = g => level'[r] = level'[q]
      BY <1>1, <1>3, <3>2, <3>4
    <3>6. LevelIn(level', g) = level'[q]
      BY <3>1, <3>4, <3>5, LevelIsAccepted
    <3> QED
      BY <3>3, <3>4, <3>6 DEF Levels, LevelIn
  <2>2. CASE ~\E q \in Connectors : level[q] # None /\ level[q].graph = g
    <3>1. ~\E q \in Connectors : level'[q] # None /\ level'[q].graph = g
      BY <1>1, <1>3, <2>2
    <3> QED
      BY <2>2, <3>1 DEF Levels, LevelIn
  <2> QED
    BY <2>1, <2>2
<1>4. Levels' = [Levels EXCEPT ![d.graph] = d]
  BY <1>1, <1>2, <1>3 DEF Levels
<1>5. CASE Levels[d.graph] = None
  <2>1. Promise!Accept(d)
    BY <1>1, <1>4, <1>5 DEF Promise!Accept, Levels, LevelIn, LevelOf
  <2> QED
    BY <2>1 DEF Promise!Next
<1>6. CASE Levels[d.graph] # None
  <2>1. PICK q \in Connectors : level[q] # None /\ level[q].graph = d.graph
    BY <1>1, <1>6 DEF Levels, LevelIn
  <2>2. Levels[d.graph] = d
    BY <1>1, <2>1, LevelIsAccepted DEF Levels
  <2>3. Levels' = Levels
    BY <1>1, <1>2, <1>3, <2>2 DEF Levels
  <2> QED
    BY <1>1, <2>3, Stutters
<1> QED
  BY <1>5, <1>6

(* The connectors together keep the promise of Convergence.  Whatever they *)
(* read in two calls, append late, or execute on a snapshot from before    *)
(* the lock, bindings and database only ever change by the first           *)
(* outstanding operation of a level that no other graph excludes, judged   *)
(* by the bindings and the database of that very moment.                   *)
THEOREM TogetherTheyConverge == LevelsHaveComponents => (Spec => ImplementsConvergence)
<1> SUFFICES ASSUME LevelsHaveComponents
             PROVE  Spec => ImplementsConvergence
  OBVIOUS
<1>1. Init => WInv /\ Promise!Init
  <2> SUFFICES ASSUME Init PROVE Promise!Init
    BY InitHasPlans
  <2> QED
    BY DEF Init, Promise!Init, EmptyJournal, LevelOf
<1>2. WInv /\ [Next]_vars => WInv'
  BY NextKeepsPlans
<1>3. WInv /\ [Next]_vars => [Promise!Next]_(Promise!vars)
  <2> SUFFICES ASSUME WInv, [Next]_vars
               PROVE  Promise!Next \/ UNCHANGED Promise!vars
    OBVIOUS
  <2>1. level' = level \/ \E p \in Connectors : \E d \in Slices : Accept(p, d)
    BY PassesAreQuiet, TurnTells, Basics DEF Next, LandsLate, vars
  <2>2. CASE level' = level
    <3>1. Levels' = Levels
      BY <2>2 DEF Levels, LevelIn
    <3>2. Quiet => UNCHANGED Promise!vars
      BY <3>1, Stutters DEF Quiet
    <3> QED
      BY <3>1, <3>2, StepEffects, ClaimsRefine, CommitRefines
  <2> QED
    BY <2>1, <2>2, AcceptRefines
<1> QED
  BY <1>1, <1>2, <1>3, PTL DEF Spec, ImplementsConvergence, Promise!Spec
=============================================================================
