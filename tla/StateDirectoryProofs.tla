------------------------ MODULE StateDirectoryProofs ------------------------
(***************************************************************************)
(* Theorems about StateDirectory, for any number of graphs, requests and   *)
(* plans, any contents, and every combination of crashes, failed writes    *)
(* and losses of power.                                                    *)
(***************************************************************************)
EXTENDS StateDirectory, TLAPS, WellFoundedInduction

-----------------------------------------------------------------------------
(* Levels and checkpoints                                                  *)

(* An accepted slice has a graph, a sequence and a generation.             *)
LEMMA SlicesAreDescribed ==
  ASSUME NEW slice \in Slices
  PROVE  /\ slice.graph \in Graphs /\ slice.sequence \in Nat /\ slice.generation \in Nat
         /\ PlanFor(slice) \in Plans
         /\ PlanFor(slice).graph = slice.graph
         /\ PlanFor(slice).sequence = slice.sequence
         /\ PlanFor(slice).generation = slice.generation
         /\ PlanFor(slice).digest = DigestOf(slice)
<1>1. PICK r \in Requests : slice = FromView(r) /\ slice # None
  BY DEF Slices
<1>2. /\ slice.graph = r.graph /\ slice.sequence = r.sequence /\ slice.generation = r.generation
      /\ r.graph # None /\ r.sequence # None /\ r.generation # None
  BY <1>1, Zenon DEF FromView
<1>3. PlanFor(slice) \in Plans
  BY DEF Plans
<1> QED
  BY <1>1, <1>2, <1>3, RequestsAreTyped DEF PlanFor, Fresh, Identity

(* Another slice with the digest is a slice of the same graph, generation. *)
LEMMA DigestsIdentify ==
  ASSUME NEW a \in Slices, NEW b \in Slices, DigestOf(a) = DigestOf(b)
  PROVE  a.graph = b.graph /\ a.generation = b.generation
  BY DEF DigestOf

(* A level is told by its sequence and its digest.                         *)
LEMMA SamePlan ==
  ASSUME NEW x \in Plans, NEW y \in Plans, x.sequence = y.sequence, x.digest = y.digest
  PROVE  x = y
<1>1. PICK a \in Slices : x = PlanFor(a)
  BY DEF Plans
<1>2. PICK b \in Slices : y = PlanFor(b)
  BY DEF Plans
<1>3. DigestOf(a) = DigestOf(b) /\ a.sequence = b.sequence
  BY <1>1, <1>2, SlicesAreDescribed
<1>4. a.graph = b.graph /\ a.generation = b.generation
  BY <1>3, DigestsIdentify
<1> QED
  BY <1>1, <1>2, <1>3, <1>4 DEF PlanFor, Fresh, Identity

(* The numbers of a plan.                                                  *)
LEMMA PlanNumbers ==
  ASSUME NEW x \in Plans
  PROVE  /\ x.sequence \in Nat /\ x.generation \in Nat /\ x.graph \in Graphs
         /\ x = [graph |-> x.graph, generation |-> x.generation, sequence |-> x.sequence,
                 digest |-> x.digest]
<1>1. PICK a \in Slices : x = PlanFor(a)
  BY DEF Plans
<1> QED
  BY <1>1, SlicesAreDescribed DEF PlanFor, Identity

(* A checkpoint, field by field.                                           *)
LEMMA CheckpointShape ==
  ASSUME NEW c \in Checkpoints
  PROVE  /\ c = [graph |-> c.graph, generation |-> c.generation, sequence |-> c.sequence,
                 digest |-> c.digest, plan |-> c.plan, report |-> c.report,
                 retired |-> c.retired]
         /\ c.plan \in PlanIds \cup {None} /\ c.report \in PlanIds \cup {None, "other"}
         /\ c.retired \in BOOLEAN
         /\ Identity(c) \in Plans
         /\ Identity(c).sequence = c.sequence /\ Identity(c).generation = c.generation
         /\ Identity(c).digest = c.digest /\ Identity(c).graph = c.graph
         /\ c.sequence \in Nat /\ c.generation \in Nat /\ c.graph \in Graphs
<1>1. PICK level \in Plans, p \in PlanIds \cup {None}, r \in PlanIds \cup {None, "other"},
           b \in BOOLEAN :
        c = [graph |-> level.graph, generation |-> level.generation, sequence |-> level.sequence,
             digest |-> level.digest, plan |-> p, report |-> r, retired |-> b]
  BY DEF Checkpoints
<1>2. Identity(c) = level
  BY <1>1, PlanNumbers DEF Identity
<1> QED
  BY <1>1, <1>2, PlanNumbers

(* A checkpoint of a level, whatever it says of a plan, a report and its   *)
(* retirement.                                                             *)
Record(x, p, r, b) ==
  [graph |-> x.graph, generation |-> x.generation, sequence |-> x.sequence,
   digest |-> x.digest, plan |-> p, report |-> r, retired |-> b]

(* A record of a level is a checkpoint of that level.                      *)
LEMMA CheckpointOfLevel ==
  ASSUME NEW x \in Plans, NEW p \in PlanIds \cup {None},
         NEW r \in PlanIds \cup {None, "other"}, NEW b \in BOOLEAN
  PROVE  /\ Record(x, p, r, b) \in Checkpoints
         /\ Identity(Record(x, p, r, b)) = x
         /\ Record(x, p, r, b).graph = x.graph
         /\ Record(x, p, r, b).sequence = x.sequence
         /\ Record(x, p, r, b).plan = p
         /\ Record(x, p, r, b).report = r
         /\ Record(x, p, r, b).retired = b
<1>1. Record(x, p, r, b) \in Checkpoints
  BY DEF Checkpoints, Record
<1>2. Identity(Record(x, p, r, b)) = x
  BY PlanNumbers DEF Identity, Record
<1> QED
  BY <1>1, <1>2 DEF Record

(* Every checkpoint is a record of its level.                              *)
LEMMA RecordOf ==
  ASSUME NEW c \in Checkpoints
  PROVE  c = Record(Identity(c), c.plan, c.report, c.retired)
<1>1. c = [graph |-> c.graph, generation |-> c.generation, sequence |-> c.sequence,
           digest |-> c.digest, plan |-> c.plan, report |-> c.report, retired |-> c.retired]
  BY CheckpointShape
<1> QED
  BY <1>1 DEF Record, Identity

(* What the code changes in a checkpoint leaves it one of the same level.  *)
LEMMA ReportReplaced ==
  ASSUME NEW x, NEW p, NEW r, NEW b, NEW s, NEW d,
         d = [Record(x, p, r, b) EXCEPT !.report = s]
  PROVE  d = Record(x, p, s, b)
  BY DEF Record

(* Retiring keeps the level and drops the plan and the report.             *)
LEMMA RetiredCheckpoint ==
  ASSUME NEW x, NEW p, NEW r, NEW b, NEW d, d = Retired(Record(x, p, r, b))
  PROVE  d = Record(x, None, None, TRUE)
<1>1. d = [Record(x, p, r, b) EXCEPT !.retired = TRUE, !.plan = None, !.report = None]
  BY DEF Retired
<1> QED
  BY <1>1 DEF Record

(* The checkpoint of a newly accepted slice.                               *)
LEMMA FreshIsARecord ==
  ASSUME NEW slice \in Slices
  PROVE  Fresh(slice) = Record(PlanFor(slice), None, None, FALSE)
<1>1. /\ PlanFor(slice).graph = slice.graph /\ PlanFor(slice).generation = slice.generation
      /\ PlanFor(slice).sequence = slice.sequence /\ PlanFor(slice).digest = DigestOf(slice)
  BY SlicesAreDescribed
<1> QED
  BY <1>1 DEF Fresh, Record

-----------------------------------------------------------------------------
(* One level taking the place of another                                   *)

(* c may be saved over what is there.                                      *)
Succeeds(c, old) == old # None => Follows(Identity(old), old.retired, c)

(* A checkpoint follows another of its level, unless it takes a retirement *)
(* back.                                                                   *)
LEMMA FollowsItself ==
  ASSUME NEW c \in Checkpoints, NEW d \in Checkpoints, Identity(d) = Identity(c),
         c.retired => d.retired
  PROVE  Follows(Identity(c), c.retired, d)
<1>1. d # None
  BY NoneIsNoContent
<1> QED
  BY <1>1, CheckpointShape DEF Follows

(* Following is transitive: what follows a follower of a level follows it. *)
LEMMA FollowsOn ==
  ASSUME NEW level \in Plans, NEW retired, NEW c \in Checkpoints, NEW d \in Checkpoints,
         Follows(level, retired, c), Follows(Identity(c), c.retired, d)
  PROVE  Follows(level, retired, d)
  BY PlanNumbers, CheckpointShape DEF Follows

-----------------------------------------------------------------------------
(* Files                                                                   *)

(* A checkpoint's file is no other graph's and no plan's; a plan's files   *)
(* are no other plan's, and in other directories than the checkpoints.     *)
LEMMA FilesDiffer ==
  /\ \A g, h \in Graphs : CheckpointFile(g) = CheckpointFile(h) => g = h
  /\ \A g \in Graphs : \A p \in PlanIds : \A f \in ArtifactFiles(p) :
       f # CheckpointFile(g) /\ Directory(f) # Directory(CheckpointFile(g))
  /\ \A p, q \in PlanIds : \A f \in ArtifactFiles(p) : f \in ArtifactFiles(q) => p = q
<1>1. \A g, h \in Graphs : CheckpointFile(g) = CheckpointFile(h) => g = h
  BY DEF CheckpointFile
<1>2. ASSUME NEW g \in Graphs, NEW p \in PlanIds, NEW f \in ArtifactFiles(p)
      PROVE  f # CheckpointFile(g) /\ Directory(f) # Directory(CheckpointFile(g))
  <2>1. f \in {<<"plans", p>>, <<"reviews", p, "plan.json">>, <<"reviews", p, "plan.md">>}
    BY DEF ArtifactFiles, PlanFile, JsonFile, MarkdownFile
  <2>2. f[1] # "graphs"
    BY <2>1
  <2>3. Directory(CheckpointFile(g)) = <<"graphs">>
    BY DEF Directory, CheckpointFile
  <2>4. Directory(f)[1] # "graphs"
    BY <2>1 DEF Directory
  <2> QED
    BY <2>2, <2>3, <2>4 DEF CheckpointFile
<1>3. ASSUME NEW p \in PlanIds, NEW q \in PlanIds, NEW f \in ArtifactFiles(p),
             f \in ArtifactFiles(q)
      PROVE  p = q
  <2>1. f[2] = p
    BY DEF ArtifactFiles, PlanFile, JsonFile, MarkdownFile
  <2>2. f[2] = q
    BY <1>3 DEF ArtifactFiles, PlanFile, JsonFile, MarkdownFile
  <2> QED
    BY <2>1, <2>2
<1> QED
  BY <1>1, <1>2, <1>3

(* A graph's checkpoint file and a plan's artifacts are among the files,   *)
(* and hold what such files hold.                                          *)
LEMMA FilesTyped ==
  /\ \A g \in Graphs : CheckpointFile(g) \in Files /\ Contents(CheckpointFile(g)) = Checkpoints
  /\ \A p \in PlanIds : \A f \in ArtifactFiles(p) : f \in Files /\ Contents(f) = Plans
<1>1. ASSUME NEW p \in PlanIds, NEW f \in ArtifactFiles(p) PROVE Contents(f) = Plans
  <2>1. f[1] # "graphs"
    BY DEF ArtifactFiles, PlanFile, JsonFile, MarkdownFile
  <2> QED
    BY <2>1 DEF Contents
<1> QED
  BY <1>1 DEF Files, Contents, CheckpointFile

(* The first of the writes still to do, and the rest.                      *)
LEMMA FirstWrite ==
  ASSUME NEW F, NEW x, NEW todo \in Seq([file : F, content : {x}]), todo # << >>
  PROVE  /\ Len(todo) \in Nat /\ Len(todo) >= 1 /\ Head(todo) = todo[1]
         /\ todo[1].file \in F /\ todo[1].content = x
         /\ Tail(todo) \in Seq([file : F, content : {x}])
         /\ Len(todo) # 1 => Tail(todo) # << >>
         /\ Len(Tail(todo)) = Len(todo) - 1
         /\ \A i \in 1 .. Len(todo) - 1 : Tail(todo)[i] = todo[i + 1]
<1> DEFINE W == [file : F, content : {x}]
<1>1. todo \in Seq(W)
  OBVIOUS
<1>2. \A w \in W : w.file \in F /\ w.content = x
  OBVIOUS
<1> HIDE DEF W
<1>3. Len(todo) \in Nat /\ Len(todo) >= 1 /\ Head(todo) = todo[1] /\ todo[1] \in W
  BY <1>1
<1>4. /\ Tail(todo) \in Seq(W) /\ Len(Tail(todo)) = Len(todo) - 1
      /\ \A i \in 1 .. Len(todo) - 1 : Tail(todo)[i] = todo[i + 1]
  BY <1>1, <1>3
<1>5. Len(todo) # 1 => Tail(todo) # << >>
  <2>1. Len(<< >>) = 0
    OBVIOUS
  <2>2. Len(todo) # 1 => Len(Tail(todo)) # 0
    BY <1>3, <1>4
  <2> QED
    BY <2>1, <2>2
<1> QED
  BY <1>2, <1>3, <1>4, <1>5 DEF W

-----------------------------------------------------------------------------
(* The inductive invariant                                                 *)

CheckpointsOf(g) == {c \in Checkpoints : c.graph = g /\ (c.retired => c.plan = None)}

(* The checkpoint that a loss of power may bring back.                     *)
KeptOf(g) == kept[CheckpointFile(g)]

(* A plan and its review, written for level x and synced.                  *)
Stored(p, x) == \A f \in ArtifactFiles(p) : seen[f] = x /\ kept[f] = x
Persisted(p) == \E x \in Plans : Stored(p, x)

(* The plans a checkpoint names are there.                                 *)
Backed(c) ==
  /\ c.plan # None => Stored(c.plan, Identity(c))
  /\ c.report \in PlanIds => Persisted(c.report)

FilesOK(g) ==
  /\ Retained(g) # None => Retained(g) \in CheckpointsOf(g) /\ Backed(Retained(g))
  /\ KeptOf(g) # None => /\ KeptOf(g) \in CheckpointsOf(g) /\ Backed(KeptOf(g))
                         /\ Follows(Identity(KeptOf(g)), KeptOf(g).retired, Retained(g))

AnswerOK(g) ==
  answered[g] # None =>
    /\ answered[g].level \in Plans
    /\ KeptOf(g) # None
    /\ Follows(answered[g].level, answered[g].retired, KeptOf(g))

(* The level in memory is not newer than the retained one.                 *)
DesiredOK(g) ==
  desired[g] # None =>
    /\ desired[g] \in Slices /\ desired[g].graph = g
    /\ Retained(g) # None
    /\ desired[g].sequence <= Retained(g).sequence
    /\ desired[g].sequence = Retained(g).sequence =>
         PlanFor(desired[g]) = Identity(Retained(g))

(* A checkpoint is being saved.                                            *)
SaveOK(g) ==
  \E c \in CheckpointsOf(g) :
    /\ work[g].todo = Save(c)
    /\ work[g].next \in {"accepted", "retired", "deliver", "idle"}
    /\ pc[g] = "rename" => Succeeds(c, Retained(g)) /\ Backed(c)
    /\ pc[g] = "sync" => Retained(g) = c
    /\ work[g].next # "idle" => work[g].checkpoint = c
    /\ work[g].next = "accepted" => work[g].slice \in Slices /\ c = Fresh(work[g].slice)

(* A plan of the retained level, in the checkpoint to be saved with it.    *)
PlannedFor(g, c) ==
  /\ c \in CheckpointsOf(g) /\ c.plan \in PlanIds /\ c.report = c.plan
  /\ Retained(g) # None /\ Identity(c) = Identity(Retained(g)) /\ ~Retained(g).retired

(* A plan and its review are being written: every file of them is stored,  *)
(* or still to do and then not there for another level.                    *)
ProposeOK(g) ==
  LET c == work[g].checkpoint IN
  /\ PlannedFor(g, c)
  /\ work[g].todo \in Seq([file : ArtifactFiles(c.plan), content : {Identity(c)}])
  /\ work[g].todo # << >>
  /\ \A f \in ArtifactFiles(c.plan) :
       \/ seen[f] = Identity(c) /\ kept[f] = Identity(c)
       \/ /\ seen[f] \in {None, Identity(c)}
          /\ \E i \in 1 .. Len(work[g].todo) : work[g].todo[i].file = f
  /\ pc[g] = "sync" => seen[work[g].todo[1].file] = Identity(c)

Labels == {"idle", "rename", "sync", "accepted", "retired", "create", "deliver"}

Proposing(g) == pc[g] \in {"rename", "sync"} /\ work[g].next = "create"

WorkOK(g) ==
  /\ pc[g] \in Labels
  /\ work[g] = [todo |-> work[g].todo, next |-> work[g].next,
                checkpoint |-> work[g].checkpoint, slice |-> work[g].slice]
  /\ Proposing(g) => ProposeOK(g)
  /\ pc[g] \in {"rename", "sync"} /\ work[g].next # "create" => SaveOK(g)
  /\ pc[g] = "create" =>
       /\ PlannedFor(g, work[g].checkpoint)
       /\ Stored(work[g].checkpoint.plan, Identity(work[g].checkpoint))
  /\ pc[g] \in {"accepted", "retired", "deliver"} =>
       Retained(g) \in CheckpointsOf(g) /\ work[g].checkpoint = Retained(g)
  /\ pc[g] \in {"accepted", "retired"} => KeptOf(g) = Retained(g)
  /\ pc[g] = "accepted" => work[g].slice \in Slices /\ Retained(g) = Fresh(work[g].slice)

Shapes ==
  /\ proc \in {"down", "booting", "serving"} /\ boot \subseteq Graphs
  /\ DOMAIN desired = Graphs /\ DOMAIN pc = Graphs /\ DOMAIN work = Graphs
  /\ DOMAIN answered = Graphs /\ DOMAIN seen = Files /\ DOMAIN kept = Files
  /\ desired = [g \in Graphs |-> desired[g]] /\ pc = [g \in Graphs |-> pc[g]]
  /\ answered = [g \in Graphs |-> answered[g]]
  /\ \A f \in Files : seen[f] \in Contents(f) \cup {None} /\ kept[f] \in Contents(f) \cup {None}
  /\ created \subseteq PlanIds

OfferedOK == \A p \in offered : p \in PlanIds /\ Persisted(p)

(* No two activities write one plan.                                       *)
Distinct ==
  \A g, h \in Graphs : g # h /\ Proposing(g) /\ Proposing(h) =>
    work[g].checkpoint.plan # work[h].checkpoint.plan

(* Resume goes through checkpoints that are there.                         *)
BootOK == \A g \in boot : Retained(g) # None

Inv ==
  /\ Shapes
  /\ BootOK
  /\ \A g \in Graphs : FilesOK(g) /\ AnswerOK(g) /\ DesiredOK(g) /\ WorkOK(g)
  /\ OfferedOK
  /\ Distinct

-----------------------------------------------------------------------------
(* What a step that touches files leaves alone                             *)

StoredGrows == \A p \in PlanIds : \A x \in Plans : Stored(p, x) => Stored(p, x)'

(* A checkpoint whose plans are stored keeps them as stored plans stay.    *)
LEMMA BackedStays ==
  ASSUME StoredGrows, NEW c \in Checkpoints, Backed(c)
  PROVE  Backed(c)'
<1>1. c.plan \in PlanIds \cup {None} /\ Identity(c) \in Plans
  BY CheckpointShape
<1>2. c.plan # None => Stored(c.plan, Identity(c))'
  BY <1>1 DEF StoredGrows, Backed
<1>3. c.report \in PlanIds => Persisted(c.report)'
  BY DEF StoredGrows, Backed, Persisted
<1> QED
  BY <1>2, <1>3 DEF Backed

(* A graph whose retained checkpoint stays, whether or not it is synced.   *)
LEMMA FilesStay ==
  ASSUME StoredGrows, NEW g \in Graphs, FilesOK(g),
         Retained(g)' = Retained(g), KeptOf(g)' \in {KeptOf(g), Retained(g)}
  PROVE  FilesOK(g)'
<1>1. \A c : c \in {KeptOf(g), Retained(g)} /\ c # None => c \in CheckpointsOf(g) /\ Backed(c)'
  BY BackedStays DEF FilesOK, CheckpointsOf
<1>3. Retained(g) # None => Follows(Identity(Retained(g)), Retained(g).retired, Retained(g))
  BY FollowsItself DEF FilesOK, CheckpointsOf
<1> QED
  BY <1>1, <1>3 DEF FilesOK

(* An answer stands while what is kept of its graph moves only to what is  *)
(* retained.                                                               *)
LEMMA AnswerStays ==
  ASSUME NEW g \in Graphs, FilesOK(g), AnswerOK(g), answered'[g] = answered[g],
         KeptOf(g)' \in {KeptOf(g), Retained(g)}
  PROVE  AnswerOK(g)'
<1>1. CASE answered[g] = None
  BY <1>1 DEF AnswerOK
<1>2. CASE answered[g] # None
  <2>1. /\ answered[g].level \in Plans /\ KeptOf(g) # None
        /\ Follows(answered[g].level, answered[g].retired, KeptOf(g))
    BY <1>2 DEF AnswerOK
  <2>2. /\ KeptOf(g) \in Checkpoints
        /\ Follows(Identity(KeptOf(g)), KeptOf(g).retired, Retained(g))
    BY <2>1 DEF FilesOK, CheckpointsOf
  <2>3. Retained(g) # None /\ Retained(g) \in Checkpoints
    BY <2>2 DEF FilesOK, CheckpointsOf, Follows
  <2>4. Follows(answered[g].level, answered[g].retired, Retained(g))
    BY <2>1, <2>2, <2>3, FollowsOn
  <2> QED
    BY <2>1, <2>3, <2>4 DEF AnswerOK
<1> QED
  BY <1>1, <1>2

(* The level in memory is kept or dropped while its checkpoint stays.      *)
LEMMA DesiredStays ==
  ASSUME NEW g \in Graphs, DesiredOK(g), desired'[g] \in {desired[g], None},
         Retained(g)' = Retained(g)
  PROVE  DesiredOK(g)'
  BY DEF DesiredOK

(* The files of the plan that h writes are h's to write.                   *)
Untouched(h) ==
  Proposing(h) => \A f \in ArtifactFiles(work[h].checkpoint.plan) :
                    seen'[f] = seen[f] /\ kept'[f] \in {kept[f], seen[f]}

(* An activity that takes no step stays in order while its own files are   *)
(* left to it.                                                             *)
LEMMA WorkStays ==
  ASSUME StoredGrows, NEW h \in Graphs, WorkOK(h), pc'[h] = pc[h], work'[h] = work[h],
         Retained(h)' = Retained(h), KeptOf(h)' \in {KeptOf(h), Retained(h)}, Untouched(h)
  PROVE  WorkOK(h)'
<1>1. Proposing(h) => ProposeOK(h)'
  <2> SUFFICES ASSUME Proposing(h) PROVE ProposeOK(h)'
    OBVIOUS
  <2> DEFINE c == work[h].checkpoint
             pending(f) == \E i \in 1 .. Len(work[h].todo) : work[h].todo[i].file = f
  <2>1. /\ PlannedFor(h, c)
        /\ work[h].todo \in Seq([file : ArtifactFiles(c.plan), content : {Identity(c)}])
        /\ work[h].todo # << >>
        /\ \A f \in ArtifactFiles(c.plan) :
             \/ seen[f] = Identity(c) /\ kept[f] = Identity(c)
             \/ seen[f] \in {None, Identity(c)} /\ pending(f)
        /\ pc[h] = "sync" => seen[work[h].todo[1].file] = Identity(c)
    BY DEF WorkOK, ProposeOK
  <2>2. \A f \in ArtifactFiles(c.plan) : seen'[f] = seen[f] /\ kept'[f] \in {kept[f], seen[f]}
    BY DEF Untouched
  <2>3. c' = c /\ work'[h].todo = work[h].todo /\ \A f : pending(f)' <=> pending(f)
    OBVIOUS
  <2>4. PlannedFor(h, c)'
    BY <2>1, <2>3 DEF PlannedFor
  <2>5. \A f \in ArtifactFiles(c.plan) :
           \/ seen'[f] = Identity(c) /\ kept'[f] = Identity(c)
           \/ seen'[f] \in {None, Identity(c)} /\ pending(f)
    BY <2>1, <2>2
  <2>6. work[h].todo[1].file \in ArtifactFiles(c.plan)
    BY <2>1, FirstWrite
  <2> HIDE DEF pending
  <2>7. pc'[h] = "sync" => seen'[work[h].todo[1].file] = Identity(c)
    BY <2>1, <2>2, <2>6
  <2> QED
    BY <2>1, <2>3, <2>4, <2>5, <2>7 DEF ProposeOK, pending
<1>2. pc[h] \in {"rename", "sync"} /\ work[h].next # "create" => SaveOK(h)'
  <2> SUFFICES ASSUME pc[h] \in {"rename", "sync"}, work[h].next # "create" PROVE SaveOK(h)'
    OBVIOUS
  <2>1. PICK c \in CheckpointsOf(h) :
          /\ work[h].todo = Save(c)
          /\ work[h].next \in {"accepted", "retired", "deliver", "idle"}
          /\ pc[h] = "rename" => Succeeds(c, Retained(h)) /\ Backed(c)
          /\ pc[h] = "sync" => Retained(h) = c
          /\ work[h].next # "idle" => work[h].checkpoint = c
          /\ work[h].next = "accepted" => work[h].slice \in Slices /\ c = Fresh(work[h].slice)
    BY DEF WorkOK, SaveOK
  <2>2. pc[h] = "rename" => Backed(c)'
    BY <2>1, BackedStays DEF CheckpointsOf
  <2> QED
    BY <2>1, <2>2 DEF SaveOK
<1>3. pc[h] = "create" =>
        /\ PlannedFor(h, work[h].checkpoint)'
        /\ Stored(work[h].checkpoint.plan, Identity(work[h].checkpoint))'
  <2> DEFINE c == work[h].checkpoint
  <2> SUFFICES ASSUME pc[h] = "create"
               PROVE  PlannedFor(h, c)' /\ Stored(c.plan, Identity(c))'
    OBVIOUS
  <2>1. PlannedFor(h, c) /\ Stored(c.plan, Identity(c))
    BY DEF WorkOK
  <2>2. c.plan \in PlanIds /\ Identity(c) \in Plans
    BY <2>1, CheckpointShape DEF PlannedFor, CheckpointsOf
  <2>3. \A p \in PlanIds : \A x \in Plans : p = c.plan /\ x = Identity(c) => Stored(p, x)'
    BY <2>1 DEF StoredGrows
  <2>4. c' = c
    OBVIOUS
  <2> QED
    BY <2>1, <2>2, <2>3, <2>4 DEF PlannedFor
<1> QED
  BY <1>1, <1>2, <1>3 DEF WorkOK, Proposing

-----------------------------------------------------------------------------
(* Steps that touch no file                                                *)

(* A step of one graph that touches no file keeps the invariant, if it     *)
(* keeps that graph's own part.                                            *)
LEMMA MemoryStep ==
  ASSUME Inv, UNCHANGED <<boot, seen, kept>>, Shapes', NEW g \in Graphs,
         \A h \in Graphs \ {g} : /\ pc'[h] = pc[h] /\ work'[h] = work[h]
                                 /\ desired'[h] = desired[h] /\ answered'[h] = answered[h],
         WorkOK(g)', DesiredOK(g)', AnswerOK(g)', OfferedOK',
         Proposing(g)' => \A h \in Graphs \ {g} :
           Proposing(h) => work[h].checkpoint.plan # work'[g].checkpoint.plan
  PROVE  Inv'
<1>1. StoredGrows
  BY DEF StoredGrows, Stored
<1>2. \A h \in Graphs : Retained(h)' = Retained(h) /\ KeptOf(h)' = KeptOf(h) /\ Untouched(h)
  BY DEF Retained, KeptOf, Untouched
<1>3. \A h \in Graphs : FilesOK(h)'
  BY <1>1, <1>2, FilesStay DEF Inv
<1>4. \A h \in Graphs : AnswerOK(h)'
  BY <1>2, AnswerStays DEF Inv
<1>5. \A h \in Graphs : DesiredOK(h)'
  BY <1>2, DesiredStays DEF Inv
<1>6. \A h \in Graphs : WorkOK(h)'
  BY <1>1, <1>2, WorkStays DEF Inv
<1>7. Distinct'
  <2> SUFFICES ASSUME NEW h \in Graphs, NEW k \in Graphs, h # k, Proposing(h)', Proposing(k)'
               PROVE  work'[h].checkpoint.plan # work'[k].checkpoint.plan
    BY DEF Distinct
  <2>1. \A l \in Graphs \ {g} : Proposing(l)' = Proposing(l)
    BY DEF Proposing
  <2> QED
    BY <2>1 DEF Inv, Distinct
<1>8. BootOK'
  BY DEF Inv, BootOK, Retained
<1> QED
  BY <1>3, <1>4, <1>5, <1>6, <1>7, <1>8 DEF Inv

(* The step ends the activity of g, or leaves it as it is.                 *)
LEMMA EndedWork ==
  ASSUME NEW g \in Graphs, Shapes, pc' = [pc EXCEPT ![g] = "idle"],
         work' = [work EXCEPT ![g] = Idle]
  PROVE  WorkOK(g)' /\ ~Proposing(g)'
  BY DEF Shapes, WorkOK, Labels, Idle, Proposing

(* A save begins.                                                          *)
LEMMA SaveBegins ==
  ASSUME Inv, NEW g \in Graphs, NEW c \in CheckpointsOf(g), NEW next, NEW k, NEW slice,
         Writes(g, Save(c), next, k, slice), UNCHANGED <<seen, kept>>,
         Succeeds(c, Retained(g)), Backed(c),
         next \in {"accepted", "retired", "deliver", "idle"},
         next # "idle" => k = c,
         next = "accepted" => slice \in Slices /\ c = Fresh(slice)
  PROVE  WorkOK(g)' /\ ~Proposing(g)'
<1>1. /\ pc'[g] = "rename"
      /\ work'[g] = [todo |-> Save(c), next |-> next, checkpoint |-> k, slice |-> slice]
  BY DEF Writes, Goto, Inv, Shapes
<1>2. Backed(c)'
  BY DEF Backed, Stored, Persisted
<1>3. Retained(g)' = Retained(g)
  BY DEF Retained
<1>4. SaveOK(g)'
  <2>1. /\ work'[g].todo = Save(c) /\ work'[g].next = next /\ work'[g].checkpoint = k
        /\ work'[g].slice = slice
    BY <1>1
  <2> QED
    BY <1>1, <1>2, <1>3, <2>1 DEF SaveOK
<1> QED
  BY <1>1, <1>4 DEF WorkOK, Proposing, Labels

(* What is retained of a graph, field by field.                            *)
LEMMA RetainedShape ==
  ASSUME Inv, NEW g \in Graphs, Retained(g) # None
  PROVE  /\ Retained(g) \in CheckpointsOf(g) /\ Retained(g) \in Checkpoints
         /\ Backed(Retained(g))
         /\ Identity(Retained(g)) \in Plans /\ Identity(Retained(g)).graph = g
         /\ Retained(g) = Record(Identity(Retained(g)), Retained(g).plan, Retained(g).report,
                                 Retained(g).retired)
         /\ Retained(g).plan \in PlanIds \cup {None}
         /\ Retained(g).report \in PlanIds \cup {None, "other"}
         /\ Retained(g).retired \in BOOLEAN
  BY CheckpointShape, RecordOf DEF Inv, FilesOK, CheckpointsOf

(* A checkpoint of the retained level that names no plan but the retained  *)
(* one may be saved.                                                       *)
LEMMA SameLevelSaves ==
  ASSUME Inv, NEW g \in Graphs, Retained(g) # None,
         NEW p \in {None, Retained(g).plan}, NEW r \in {None, "other"}, NEW b \in BOOLEAN,
         Retained(g).retired => b, b => p = None
  PROVE  LET c == Record(Identity(Retained(g)), p, r, b) IN
         c \in CheckpointsOf(g) /\ Succeeds(c, Retained(g)) /\ Backed(c)
<1> DEFINE x == Identity(Retained(g))
           c == Record(x, p, r, b)
<1>1. /\ Retained(g) \in Checkpoints /\ x \in Plans /\ x.graph = g /\ Backed(Retained(g))
      /\ p \in PlanIds \cup {None} /\ Retained(g).retired \in BOOLEAN
  BY RetainedShape
<1>2. /\ c \in Checkpoints /\ Identity(c) = x /\ c.graph = g /\ c.plan = p /\ c.report = r
      /\ c.retired = b
  BY <1>1, CheckpointOfLevel
<1> HIDE DEF c
<1>3. Succeeds(c, Retained(g))
  BY <1>1, <1>2, FollowsItself DEF Succeeds
<1>4. Backed(c)
  BY <1>1, <1>2, PlanIdsAreNoReports DEF Backed
<1>5. c \in CheckpointsOf(g)
  BY <1>2 DEF CheckpointsOf
<1> QED
  BY <1>3, <1>4, <1>5 DEF c

(* What core was told is there to be reviewed.                             *)
LEMMA OfferedMore ==
  ASSUME Inv, UNCHANGED <<seen, kept>>, NEW S,
         \A p \in S : p \in PlanIds /\ Persisted(p), offered' \subseteq offered \cup S
  PROVE  OfferedOK'
<1>1. \A p : Persisted(p) => Persisted(p)'
  BY DEF Persisted, Stored
<1> QED
  BY <1>1 DEF Inv, OfferedOK

(* Offered plans stay stored where no file changes.                        *)
LEMMA OfferedStays ==
  ASSUME Inv, UNCHANGED <<seen, kept, offered>>
  PROVE  OfferedOK'
<1>1. \A p : Persisted(p) => Persisted(p)'
  BY DEF Persisted, Stored
<1> QED
  BY <1>1 DEF Inv, OfferedOK

(* A step that begins a save, and changes nothing that the graph holds in  *)
(* memory or was answered.                                                 *)
LEMMA SaveStep ==
  ASSUME Inv, NEW g \in Graphs, NEW c \in CheckpointsOf(g), NEW next, NEW k, NEW slice,
         Writes(g, Save(c), next, k, slice), UNCHANGED <<memory, seen, kept, answered>>,
         Succeeds(c, Retained(g)), Backed(c),
         next \in {"accepted", "retired", "deliver", "idle"},
         next # "idle" => k = c,
         next = "accepted" => slice \in Slices /\ c = Fresh(slice),
         created' \subseteq PlanIds, OfferedOK'
  PROVE  Inv'
<1>1. WorkOK(g)' /\ ~Proposing(g)'
  BY SaveBegins
<1>2. Shapes'
  BY DEF Inv, Shapes, Writes, Goto, memory
<1>3. /\ Retained(g)' = Retained(g) /\ KeptOf(g)' = KeptOf(g)
      /\ desired'[g] = desired[g] /\ answered'[g] = answered[g]
  BY DEF Retained, KeptOf, memory
<1>4. DesiredOK(g)' /\ AnswerOK(g)'
  BY <1>3, DesiredStays, AnswerStays DEF Inv
<1>5. \A h \in Graphs \ {g} : /\ pc'[h] = pc[h] /\ work'[h] = work[h]
                              /\ desired'[h] = desired[h] /\ answered'[h] = answered[h]
  BY DEF Inv, Shapes, Writes, Goto, memory
<1> QED
  BY <1>1, <1>2, <1>4, <1>5, MemoryStep DEF memory

(* A step that ends the activity of g.                                     *)
LEMMA EndStep ==
  ASSUME Inv, NEW g \in Graphs, End(g), UNCHANGED <<proc, boot, seen, kept>>,
         NEW d, desired' = [desired EXCEPT ![g] = d],
         NEW a, answered' = [answered EXCEPT ![g] = a],
         created' \subseteq PlanIds, OfferedOK', DesiredOK(g)', AnswerOK(g)'
  PROVE  Inv'
<1>1. WorkOK(g)' /\ ~Proposing(g)'
  BY EndedWork DEF Inv, End, Goto
<1>2. Shapes'
  BY DEF Inv, Shapes, End, Goto
<1>3. \A h \in Graphs \ {g} : /\ pc'[h] = pc[h] /\ work'[h] = work[h]
                              /\ desired'[h] = desired[h] /\ answered'[h] = answered[h]
  BY DEF Inv, Shapes, End, Goto
<1> QED
  BY <1>1, <1>2, <1>3, MemoryStep

-----------------------------------------------------------------------------
(* accept and retire                                                       *)

(* A newer level is accepted: its checkpoint is to be saved first.         *)
LEMMA AcceptNewStep ==
  ASSUME Inv, NEW slice \in Slices, AcceptNew(slice)
  PROVE  Inv'
<1> DEFINE g == slice.graph
           c == Fresh(slice)
<1>1. /\ g \in Graphs /\ PlanFor(slice) \in Plans /\ slice.sequence \in Nat
      /\ slice.generation \in Nat /\ PlanFor(slice).graph = g
      /\ PlanFor(slice).sequence = slice.sequence
      /\ PlanFor(slice).generation = slice.generation
  BY SlicesAreDescribed
<1>2. c = Record(PlanFor(slice), None, None, FALSE)
  BY FreshIsARecord
<1>3. /\ c \in Checkpoints /\ Identity(c) = PlanFor(slice) /\ c.graph = g /\ c.plan = None
      /\ c.report = None /\ ~c.retired
  <2>1. None \in PlanIds \cup {None} /\ None \in PlanIds \cup {None, "other"} /\ FALSE \in BOOLEAN
    OBVIOUS
  <2> DEFINE d == Record(PlanFor(slice), None, None, FALSE)
  <2>2. /\ d \in Checkpoints /\ Identity(d) = PlanFor(slice) /\ d.graph = PlanFor(slice).graph
        /\ d.plan = None /\ d.report = None /\ d.retired = FALSE
    <3>1. ASSUME NEW b \in BOOLEAN
          PROVE  LET e == Record(PlanFor(slice), None, None, b) IN
                 /\ e \in Checkpoints /\ Identity(e) = PlanFor(slice)
                 /\ e.graph = PlanFor(slice).graph /\ e.plan = None /\ e.report = None
                 /\ e.retired = b
      BY <1>1, <2>1, CheckpointOfLevel
    <3> QED
      BY <3>1
  <2> HIDE DEF c, d
  <2>3. c = d
    BY <1>2 DEF d
  <2> QED
    BY <1>1, <2>2, <2>3
<1>4. c.sequence = slice.sequence /\ c.generation = slice.generation /\ c # None
  BY <1>1, <1>3, CheckpointShape, NoneIsNoContent
<1>5. c \in CheckpointsOf(g)
  BY <1>3 DEF CheckpointsOf
<1>6. Succeeds(c, Retained(g))
  <2>1. CASE Retained(g) = None
    BY <2>1 DEF Succeeds
  <2>2. CASE Retained(g) # None
    <3>1. /\ slice.sequence > Retained(g).sequence /\ slice.generation >= Retained(g).generation
          /\ ~Retained(g).retired
      BY <2>2 DEF AcceptNew, Supersedes
    <3>2. /\ Retained(g) \in Checkpoints
          /\ Identity(Retained(g)).sequence = Retained(g).sequence
          /\ Identity(Retained(g)).generation = Retained(g).generation
          /\ Retained(g).sequence \in Nat
      BY <2>2, <1>1, RetainedShape, CheckpointShape
    <3> HIDE DEF c, g
    <3> QED
      BY <1>1, <1>4, <3>1, <3>2 DEF Succeeds, Follows
  <2> QED
    BY <2>1, <2>2
<1>7. Backed(c)
  BY <1>3, PlanIdsAreNoReports DEF Backed
<1>8. OfferedOK'
  BY OfferedStays DEF AcceptNew, external
<1>9. /\ Writes(g, Save(c), "accepted", c, slice) /\ UNCHANGED <<memory, seen, kept, answered>>
      /\ created' \subseteq PlanIds
  BY DEF AcceptNew, external, Inv, Shapes
<1> HIDE DEF c, g
<1>10. c = Fresh(slice)
  BY DEF c
<1> QED
  BY <1>1, <1>5, <1>6, <1>7, <1>8, <1>9, <1>10, SaveStep

(* Its request is answered after the sync.                                 *)
LEMMA AnswerAcceptedStep ==
  ASSUME Inv, NEW g \in Graphs, AnswerAccepted(g)
  PROVE  Inv'
<1> DEFINE c == Retained(g)
<1>1. /\ pc[g] = "accepted" /\ End(g) /\ desired' = [desired EXCEPT ![g] = work[g].slice]
      /\ UNCHANGED <<proc, boot, seen, kept, created, offered>>
  BY DEF AnswerAccepted
<1>2. answered' = [answered EXCEPT ![g] = [level |-> Identity(work[g].checkpoint),
                                           retired |-> work[g].checkpoint.retired]]
  BY DEF AnswerAccepted, Answer
<1>3. /\ c \in CheckpointsOf(g) /\ work[g].checkpoint = c /\ KeptOf(g) = c
      /\ work[g].slice \in Slices /\ c = Fresh(work[g].slice)
  BY <1>1 DEF Inv, WorkOK
<1>4. c \in Checkpoints /\ c # None /\ Identity(c) \in Plans /\ c.graph = g
  BY <1>3, CheckpointShape, NoneIsNoContent DEF CheckpointsOf
<1>5. DesiredOK(g)'
  <2>1. desired'[g] = work[g].slice /\ Retained(g)' = c
    BY <1>1 DEF Inv, Shapes, Retained
  <2>2. PlanFor(work[g].slice) = Identity(c)
    BY <1>3 DEF PlanFor
  <2>3. /\ work[g].slice.graph = Identity(c).graph
        /\ work[g].slice.sequence = Identity(c).sequence
        /\ work[g].slice.sequence \in Nat
    BY <1>3, <2>2, SlicesAreDescribed
  <2>4. work[g].slice.graph = g /\ work[g].slice.sequence = c.sequence
    BY <1>4, <2>3, CheckpointShape
  <2> QED
    BY <1>3, <1>4, <2>1, <2>2, <2>3, <2>4 DEF DesiredOK
<1>6. AnswerOK(g)'
  <2>1. answered'[g].level = Identity(c) /\ answered'[g].retired = c.retired /\ KeptOf(g)' = c
    BY <1>1, <1>2, <1>3 DEF Inv, Shapes, KeptOf
  <2> QED
    BY <1>4, <2>1, FollowsItself DEF AnswerOK
<1>7. OfferedOK'
  BY <1>1, OfferedStays
<1> QED
  BY <1>1, <1>2, <1>5, <1>6, <1>7, EndStep DEF Inv, Shapes

(* The retirement is answered after the sync.                              *)
LEMMA AnswerRetiredStep ==
  ASSUME Inv, NEW g \in Graphs, AnswerRetired(g)
  PROVE  Inv'
<1> DEFINE c == Retained(g)
<1>1. /\ pc[g] = "retired" /\ End(g) /\ desired' = [desired EXCEPT ![g] = None]
      /\ UNCHANGED <<proc, boot, seen, kept, created, offered>>
  BY DEF AnswerRetired
<1>2. answered' = [answered EXCEPT ![g] = [level |-> Identity(work[g].checkpoint),
                                           retired |-> work[g].checkpoint.retired]]
  BY DEF AnswerRetired, Answer
<1>3. c \in CheckpointsOf(g) /\ work[g].checkpoint = c /\ KeptOf(g) = c
  BY <1>1 DEF Inv, WorkOK
<1>4. c \in Checkpoints /\ c # None /\ Identity(c) \in Plans
  BY <1>3, CheckpointShape, NoneIsNoContent DEF CheckpointsOf
<1>5. DesiredOK(g)'
  BY <1>1 DEF Inv, Shapes, DesiredOK
<1>6. AnswerOK(g)'
  <2>1. answered'[g].level = Identity(c) /\ answered'[g].retired = c.retired /\ KeptOf(g)' = c
    BY <1>1, <1>2, <1>3 DEF Inv, Shapes, KeptOf
  <2> QED
    BY <1>4, <2>1, FollowsItself DEF AnswerOK
<1>7. OfferedOK'
  BY <1>1, OfferedStays
<1> QED
  BY <1>1, <1>2, <1>5, <1>6, <1>7, EndStep DEF Inv, Shapes

(* A repeated request only puts the level in memory again.                 *)
LEMMA AcceptKnownStep ==
  ASSUME Inv, NEW slice \in Slices, AcceptKnown(slice)
  PROVE  Inv'
<1> DEFINE g == slice.graph
           c == Retained(g)
<1>1. /\ c # None /\ Repeats(slice, c) /\ desired' = [desired EXCEPT ![g] = slice]
      /\ UNCHANGED <<proc, boot, pc, work, seen, kept, external>>
  BY DEF AcceptKnown
<1>2. /\ g \in Graphs /\ PlanFor(slice) \in Plans /\ slice.sequence \in Nat
      /\ PlanFor(slice).sequence = slice.sequence /\ PlanFor(slice).digest = DigestOf(slice)
  BY SlicesAreDescribed
<1>3. c \in Checkpoints /\ Identity(c) \in Plans
  BY <1>1, <1>2, RetainedShape
<1>4. Identity(c).sequence = c.sequence /\ Identity(c).digest = c.digest
  BY <1>3, CheckpointShape
<1>5. PlanFor(slice) = Identity(c)
  BY <1>1, <1>2, <1>3, <1>4, SamePlan DEF Repeats
<1>6. DesiredOK(g)'
  <2>1. desired'[g] = slice /\ Retained(g)' = c
    BY <1>1, <1>2 DEF Inv, Shapes, Retained
  <2> QED
    BY <1>1, <1>2, <1>5, <2>1 DEF DesiredOK, Repeats
<1>7. Retained(g)' = c /\ KeptOf(g)' = KeptOf(g)
  BY <1>1 DEF Retained, KeptOf
<1>8. AnswerOK(g)'
  BY <1>1, <1>2, <1>7, AnswerStays DEF Inv, external
<1>9. WorkOK(g)' /\ (Proposing(g)' <=> Proposing(g))
  <2>1. StoredGrows /\ Untouched(g)
    BY <1>1 DEF StoredGrows, Stored, Untouched
  <2> QED
    BY <1>1, <1>2, <1>7, <2>1, WorkStays DEF Inv, Proposing
<1>10. OfferedOK'
  BY <1>1, OfferedStays DEF external
<1>11. Shapes'
  BY <1>1 DEF Inv, Shapes, external
<1>12. \A h \in Graphs \ {g} : /\ pc'[h] = pc[h] /\ work'[h] = work[h]
                               /\ desired'[h] = desired[h] /\ answered'[h] = answered[h]
  BY <1>1 DEF Inv, Shapes, external
<1>13. Proposing(g)' => \A h \in Graphs \ {g} :
         Proposing(h) => work[h].checkpoint.plan # work'[g].checkpoint.plan
  BY <1>1, <1>2, <1>9 DEF Inv, Distinct
<1> HIDE DEF g, c
<1> QED
  BY <1>1, <1>2, <1>6, <1>8, <1>9, <1>10, <1>11, <1>12, <1>13, MemoryStep

(* A retirement saves the retired checkpoint first.                        *)
LEMMA RetireStep ==
  ASSUME Inv, NEW g \in Graphs, Retire(g)
  PROVE  Inv'
<1> DEFINE old == Retained(g)
           c == Retired(old)
<1>1. /\ old # None /\ ~old.retired /\ Writes(g, Save(c), "retired", c, None)
      /\ UNCHANGED <<memory, seen, kept, external>>
  BY DEF Retire
<1>2. old = Record(Identity(old), old.plan, old.report, old.retired)
  BY <1>1, RetainedShape
<1> HIDE DEF c, old
<1>3. c = Record(Identity(old), None, None, TRUE)
  BY <1>2, RetiredCheckpoint DEF c
<1>4. c \in CheckpointsOf(g) /\ Succeeds(c, old) /\ Backed(c)
  <2>1. \A b \in BOOLEAN : old.retired => b
    BY <1>1
  <2>2. ASSUME NEW b \in BOOLEAN, b
        PROVE  LET d == Record(Identity(old), None, None, b) IN
               d \in CheckpointsOf(g) /\ Succeeds(d, old) /\ Backed(d)
    BY <1>1, <2>2, SameLevelSaves DEF old
  <2> QED
    BY <1>3, <2>2
<1>5. OfferedOK'
  BY <1>1, OfferedStays DEF external
<1> QED
  BY <1>1, <1>4, <1>5, SaveStep DEF Inv, Shapes, external, old

-----------------------------------------------------------------------------
(* Passes                                                                  *)

(* A plan is used only where its file is of the retained level.            *)
LEMMA UsePlanStep ==
  ASSUME Inv, NEW g \in Graphs, UsePlan(g)
  PROVE  Inv'
<1> DEFINE old == Retained(g)
<1>1. PICK p \in {None, old.plan} : Publish(g, [old EXCEPT !.plan = p, !.report = "other"])
  BY DEF UsePlan
<1>2. old # None /\ ~old.retired /\ UNCHANGED <<memory, seen, kept, external>>
  BY DEF UsePlan, Runs
<1> DEFINE c == [old EXCEPT !.plan = p, !.report = "other"]
<1>3. Writes(g, Save(c), "deliver", c, None)
  BY <1>1 DEF Publish
<1>4. old = Record(Identity(old), old.plan, old.report, old.retired) /\ old.retired \in BOOLEAN
  BY <1>2, RetainedShape
<1> HIDE DEF c, old
<1>5. c = Record(Identity(old), p, "other", old.retired)
  <2>1. c = [Record(Identity(old), old.plan, old.report, old.retired)
               EXCEPT !.plan = p, !.report = "other"]
    BY <1>4, Zenon DEF c
  <2> QED
    BY <2>1 DEF Record
<1>6. c \in CheckpointsOf(g) /\ Succeeds(c, old) /\ Backed(c)
  BY <1>2, <1>4, <1>5, SameLevelSaves DEF old
<1>7. OfferedOK'
  BY <1>2, OfferedStays DEF external
<1> QED
  BY <1>2, <1>3, <1>6, <1>7, SaveStep DEF Inv, Shapes, external, old

(* A report without a plan changes nothing but the report.                 *)
LEMMA ReportLevelStep ==
  ASSUME Inv, NEW g \in Graphs, ReportLevel(g)
  PROVE  Inv'
<1> DEFINE old == Retained(g)
           c == [old EXCEPT !.report = "other"]
<1>1. /\ old # None /\ ~old.retired /\ old.plan = None
      /\ UNCHANGED <<memory, seen, kept, external>>
      /\ Writes(g, Save(c), "deliver", c, None)
  BY DEF ReportLevel, Runs, Publish
<1>2. old = Record(Identity(old), old.plan, old.report, old.retired) /\ old.retired \in BOOLEAN
  BY <1>1, RetainedShape
<1> HIDE DEF c, old
<1>3. c = Record(Identity(old), None, "other", old.retired)
  BY <1>1, <1>2, ReportReplaced DEF c
<1>4. c \in CheckpointsOf(g) /\ Succeeds(c, old) /\ Backed(c)
  BY <1>1, <1>2, <1>3, SameLevelSaves DEF old
<1>5. OfferedOK'
  BY <1>1, OfferedStays DEF external
<1> QED
  BY <1>1, <1>4, <1>5, SaveStep DEF Inv, Shapes, external, old

(* The plan is in the journal; the checkpoint that names it is saved.      *)
LEMMA CreateStep ==
  ASSUME Inv, NEW g \in Graphs, Create(g)
  PROVE  Inv'
<1> DEFINE c == work[g].checkpoint
<1>1. /\ pc[g] = "create" /\ created' = created \cup {c.plan}
      /\ Writes(g, Save(c), "deliver", c, None)
      /\ UNCHANGED <<memory, seen, kept, answered, offered>>
  BY DEF Create, Publish
<1>2. PlannedFor(g, c) /\ Stored(c.plan, Identity(c))
  BY <1>1 DEF Inv, WorkOK
<1>3. c \in Checkpoints /\ c \in CheckpointsOf(g) /\ c.plan \in PlanIds /\ Identity(c) \in Plans
  BY <1>2, CheckpointShape DEF PlannedFor, CheckpointsOf
<1>4. Backed(c)
  BY <1>2, <1>3 DEF Backed, Persisted, PlannedFor
<1>5. Succeeds(c, Retained(g))
  <2>1. /\ Retained(g) \in Checkpoints /\ Identity(c) = Identity(Retained(g))
        /\ ~Retained(g).retired
    BY <1>2, RetainedShape DEF PlannedFor
  <2> QED
    BY <1>3, <2>1, FollowsItself DEF Succeeds
<1>6. OfferedOK'
  BY <1>1, OfferedStays
<1>7. created' \subseteq PlanIds
  BY <1>1, <1>3 DEF Inv, Shapes
<1> HIDE DEF c
<1> QED
  BY <1>1, <1>3, <1>4, <1>5, <1>6, <1>7, SaveStep

(* Core has read the report, which is then dropped.                        *)
LEMMA CoreReadsBacked ==
  ASSUME Inv, NEW g \in Graphs, pc[g] = "deliver", UNCHANGED <<seen, kept>>, CoreReads(g)
  PROVE  OfferedOK'
<1> DEFINE c == work[g].checkpoint
<1>1. Retained(g) \in CheckpointsOf(g) /\ c = Retained(g)
  BY DEF Inv, WorkOK
<1>2. Retained(g) # None
  BY <1>1, NoneIsNoContent DEF CheckpointsOf
<1>3. Backed(c)
  BY <1>1, <1>2, RetainedShape
<1>4. \A p \in {c.report} \cap PlanIds : p \in PlanIds /\ Persisted(p)
  BY <1>3 DEF Backed
<1> QED
  BY <1>4, OfferedMore DEF CoreReads

(* What core reads of a delivered report is a plan that is stored.         *)
LEMMA DeliverStep ==
  ASSUME Inv, NEW g \in Graphs, Deliver(g)
  PROVE  Inv'
<1> DEFINE old == Retained(g)
           c == [old EXCEPT !.report = None]
<1>1. /\ pc[g] = "deliver" /\ CoreReads(g)
      /\ UNCHANGED <<memory, seen, kept, created, answered>>
  BY DEF Deliver
<1>2. old \in CheckpointsOf(g) /\ work[g].checkpoint = old
  BY <1>1 DEF Inv, WorkOK
<1>3. Writes(g, Save(c), "idle", None, None)
  BY <1>2 DEF Deliver
<1>4. old # None
  BY <1>2, NoneIsNoContent DEF CheckpointsOf
<1>5. /\ old = Record(Identity(old), old.plan, old.report, old.retired)
      /\ old.retired \in BOOLEAN /\ (old.retired => old.plan = None)
  BY <1>2, <1>4, RetainedShape DEF CheckpointsOf
<1>6. OfferedOK'
  BY <1>1, CoreReadsBacked
<1> HIDE DEF c, old
<1>7. c = Record(Identity(old), old.plan, None, old.retired)
  BY <1>5, ReportReplaced DEF c
<1>8. c \in CheckpointsOf(g) /\ Succeeds(c, old) /\ Backed(c)
  BY <1>4, <1>5, <1>7, SameLevelSaves DEF old
<1> QED
  BY <1>1, <1>3, <1>6, <1>8, SaveStep DEF Inv, Shapes, old

(* A call that fails may have had its effect, and ends the activity.       *)
LEMMA CallFailsStep ==
  ASSUME Inv, NEW g \in Graphs, CallFails(g)
  PROVE  Inv'
<1>1. End(g) /\ UNCHANGED <<memory, seen, kept, answered>>
  BY DEF CallFails
<1>2. created' \subseteq PlanIds
  <2>1. pc[g] = "create" => work[g].checkpoint.plan \in PlanIds
    BY DEF Inv, WorkOK, PlannedFor
  <2> QED
    BY <2>1 DEF CallFails, Inv, Shapes
<1>3. OfferedOK'
  BY <1>1, OfferedStays, CoreReadsBacked DEF CallFails
<1>4. Retained(g)' = Retained(g) /\ KeptOf(g)' = KeptOf(g)
  BY <1>1 DEF Retained, KeptOf
<1>5. DesiredOK(g)' /\ AnswerOK(g)'
  BY <1>1, <1>4, DesiredStays, AnswerStays DEF Inv, memory
<1>6. /\ desired' = [desired EXCEPT ![g] = desired[g]]
      /\ answered' = [answered EXCEPT ![g] = answered[g]]
  BY <1>1 DEF Inv, Shapes, memory
<1> QED
  BY <1>1, <1>2, <1>3, <1>5, <1>6, EndStep DEF memory

(* A pass plans a level: every file of the plan is still to be written.    *)
LEMMA ProposeStep ==
  ASSUME Inv, NEW g \in Graphs, Propose(g)
  PROVE  Inv'
<1> DEFINE slice == desired[g]
<1>1. PICK old, x : old = Retained(g) /\ x = Identity(old)
  OBVIOUS
<1>2. /\ old # None /\ ~old.retired /\ slice # None /\ slice.sequence = old.sequence
      /\ UNCHANGED <<memory, seen, kept, external>>
  BY <1>1 DEF Propose, Runs
<1>3. PICK p \in PlanIds :
        /\ \A f \in ArtifactFiles(p) : seen[f] \in {None, PlanFor(slice)}
        /\ \A h \in Graphs \ {g} : work[h].checkpoint # None => work[h].checkpoint.plan # p
        /\ Writes(g, Persist(p, slice), "create", [old EXCEPT !.plan = p, !.report = p], None)
  BY <1>1 DEF Propose
<1>4. PICK c, todo : c = [old EXCEPT !.plan = p, !.report = p] /\ todo = Persist(p, slice)
  OBVIOUS
<1>5. Writes(g, todo, "create", c, None)
  BY <1>3, <1>4
<1>6. PlanFor(slice) = x
  BY <1>1, <1>2 DEF Inv, DesiredOK
<1>7. /\ old = Record(x, old.plan, old.report, old.retired) /\ old.retired \in BOOLEAN
      /\ x \in Plans /\ x.graph = g
  BY <1>1, <1>2, RetainedShape
<1>8. /\ pc'[g] = "rename" /\ work'[g].todo = todo /\ work'[g].checkpoint = c
      /\ work'[g] = [todo |-> todo, next |-> "create", checkpoint |-> c, slice |-> None]
  BY <1>5 DEF Writes, Goto, Inv, Shapes
<1>9. Retained(g)' = old /\ KeptOf(g)' = KeptOf(g)
  BY <1>1, <1>2 DEF Retained, KeptOf
<1>10. PlannedFor(g, c)' /\ Identity(c) = x /\ c.plan = p
  <2>1. c = Record(x, p, p, old.retired)
    <3>1. c = [Record(x, old.plan, old.report, old.retired) EXCEPT !.plan = p, !.report = p]
      BY <1>4, <1>7, Zenon
    <3> QED
      BY <3>1 DEF Record
  <2>2. /\ c \in Checkpoints /\ Identity(c) = x /\ c.graph = g /\ c.plan = p /\ c.report = p
        /\ c.retired = old.retired
    BY <1>7, <2>1, CheckpointOfLevel
  <2> QED
    BY <1>1, <1>2, <1>9, <2>2 DEF PlannedFor, CheckpointsOf
<1>11. /\ todo \in Seq([file : ArtifactFiles(p), content : {x}]) /\ Len(todo) = 3
      /\ todo[1].file = PlanFile(p) /\ todo[2].file = JsonFile(p)
      /\ todo[3].file = MarkdownFile(p) /\ todo # << >>
  <2>1. todo = << [file |-> PlanFile(p), content |-> x], [file |-> JsonFile(p), content |-> x],
                  [file |-> MarkdownFile(p), content |-> x] >>
    BY <1>4, <1>6 DEF Persist, Write
  <2> QED
    BY <2>1 DEF ArtifactFiles
<1>12. \A f \in ArtifactFiles(p) : \E i \in 1 .. Len(todo) : todo[i].file = f
  BY <1>11 DEF ArtifactFiles
<1>13. ProposeOK(g)'
  <2>1. \A f \in ArtifactFiles(p) : seen'[f] \in {None, x}
    BY <1>2, <1>3, <1>6
  <2> QED
    BY <1>8, <1>10, <1>11, <1>12, <2>1 DEF ProposeOK
<1>14. WorkOK(g)'
  <2>1. work'[g].next = "create"
    BY <1>8
  <2> QED
    BY <1>8, <1>13, <2>1 DEF WorkOK, Labels
<1>15. DesiredOK(g)' /\ AnswerOK(g)'
  BY <1>1, <1>2, <1>9, DesiredStays, AnswerStays DEF Inv, memory, external
<1>16. OfferedOK'
  BY <1>2, OfferedStays DEF external
<1>17. Shapes'
  BY <1>2, <1>5 DEF Inv, Shapes, Writes, Goto, memory, external
<1>18. \A h \in Graphs \ {g} : /\ pc'[h] = pc[h] /\ work'[h] = work[h]
                               /\ desired'[h] = desired[h] /\ answered'[h] = answered[h]
  BY <1>2, <1>5 DEF Inv, Shapes, Writes, Goto, memory, external
<1>19. \A h \in Graphs \ {g} : Proposing(h) => work[h].checkpoint.plan # work'[g].checkpoint.plan
  <2>1. \A h \in Graphs : Proposing(h) => work[h].checkpoint \in Checkpoints
    BY DEF Inv, WorkOK, ProposeOK, PlannedFor, CheckpointsOf
  <2> QED
    BY <1>3, <1>8, <1>10, <2>1, NoneIsNoContent
<1> QED
  BY <1>2, <1>14, <1>15, <1>16, <1>17, <1>18, <1>19, MemoryStep DEF memory

(* A step that sets out to deliver the retained report.                    *)
LEMMA DeliveringWork ==
  ASSUME Inv, NEW g \in Graphs, Retained(g) # None, DeliverAgain(g), UNCHANGED <<seen, kept>>
  PROVE  WorkOK(g)' /\ ~Proposing(g)'
<1>1. pc'[g] = "deliver" /\ work'[g] = [work[g] EXCEPT !.checkpoint = Retained(g)]
  BY DEF DeliverAgain, Goto, Inv, Shapes
<1>2. work[g] = [todo |-> work[g].todo, next |-> work[g].next,
                 checkpoint |-> work[g].checkpoint, slice |-> work[g].slice]
  BY DEF Inv, WorkOK
<1>3. work'[g] = [todo |-> work[g].todo, next |-> work[g].next,
                  checkpoint |-> Retained(g), slice |-> work[g].slice]
  BY <1>1, <1>2
<1>4. Retained(g) \in CheckpointsOf(g) /\ Retained(g)' = Retained(g)
  BY RetainedShape DEF Retained
<1> QED
  BY <1>1, <1>3, <1>4 DEF WorkOK, Proposing, Labels

(* A report that was not delivered is sent again from the checkpoint.      *)
LEMMA RedeliverStep ==
  ASSUME Inv, NEW g \in Graphs, Redeliver(g)
  PROVE  Inv'
<1>1. Retained(g) # None /\ DeliverAgain(g) /\ UNCHANGED <<memory, seen, kept, external>>
  BY DEF Redeliver, Runs
<1>2. WorkOK(g)' /\ ~Proposing(g)'
  BY <1>1, DeliveringWork
<1>3. Retained(g)' = Retained(g) /\ KeptOf(g)' = KeptOf(g)
  BY <1>1 DEF Retained, KeptOf
<1>4. DesiredOK(g)' /\ AnswerOK(g)'
  BY <1>1, <1>3, DesiredStays, AnswerStays DEF Inv, memory, external
<1>5. OfferedOK'
  BY <1>1, OfferedStays DEF external
<1>6. Shapes'
  BY <1>1 DEF Inv, Shapes, DeliverAgain, Goto, memory, external
<1>7. \A h \in Graphs \ {g} : /\ pc'[h] = pc[h] /\ work'[h] = work[h]
                              /\ desired'[h] = desired[h] /\ answered'[h] = answered[h]
  BY <1>1 DEF Inv, Shapes, DeliverAgain, Goto, memory, external
<1> QED
  BY <1>1, <1>2, <1>4, <1>5, <1>6, <1>7, MemoryStep DEF memory

-----------------------------------------------------------------------------
(* Start and end of the process                                            *)

(* Resume puts only the retained level in memory.                          *)
LEMMA ResumeGraphStep ==
  ASSUME Inv, NEW g \in Graphs, ResumeGraph(g)
  PROVE  Inv'
<1> DEFINE c == Retained(g)
<1>1. PICK request \in Requests : /\ Fetches(g, request)
                                  /\ desired' = [desired EXCEPT ![g] = FromView(request)]
  BY DEF ResumeGraph
<1>2. UNCHANGED <<proc, boot, seen, kept, external>>
  BY DEF ResumeGraph
<1> DEFINE slice == FromView(request)
<1>3. /\ slice \in Slices /\ slice.graph = g /\ slice.sequence = c.sequence
      /\ DigestOf(slice) = c.digest
  BY <1>1 DEF Fetches, Slices
<1> HIDE DEF slice
<1>4. /\ PlanFor(slice) \in Plans /\ slice.sequence \in Nat
      /\ PlanFor(slice).sequence = slice.sequence /\ PlanFor(slice).digest = DigestOf(slice)
  BY <1>3, SlicesAreDescribed
<1>5. Retained(g)' = c /\ KeptOf(g)' = KeptOf(g)
  BY <1>2 DEF Retained, KeptOf
<1>6. c # None => DesiredOK(g)'
  <2> SUFFICES ASSUME c # None PROVE DesiredOK(g)'
    OBVIOUS
  <2>1. c \in Checkpoints /\ Identity(c) \in Plans
    BY RetainedShape
  <2>2. PlanFor(slice) = Identity(c)
    BY <1>3, <1>4, <2>1, CheckpointShape, SamePlan
  <2>3. desired'[g] = slice
    BY <1>1 DEF Inv, Shapes, slice
  <2> QED
    BY <1>3, <1>4, <1>5, <2>2, <2>3 DEF DesiredOK
<1>7. c # None /\ DesiredOK(g)'
  BY <1>6 DEF ResumeGraph, Resuming, Inv, BootOK
<1>8. AnswerOK(g)'
  BY <1>2, <1>5, AnswerStays DEF Inv, external
<1>9. \/ DeliverAgain(g)
      \/ UNCHANGED <<pc, work>>
  BY DEF ResumeGraph
<1>10. /\ WorkOK(g)'
       /\ Proposing(g)' => Proposing(g) /\ work'[g] = work[g]
  <2>1. StoredGrows /\ Untouched(g)
    BY <1>2 DEF StoredGrows, Stored, Untouched
  <2> QED
    BY <1>2, <1>5, <1>7, <1>9, <2>1, DeliveringWork, WorkStays DEF Inv, Proposing
<1>11. OfferedOK'
  BY <1>2, OfferedStays DEF external
<1>12. Shapes'
  BY <1>1, <1>2, <1>9 DEF Inv, Shapes, DeliverAgain, Goto, external
<1>13. \A h \in Graphs \ {g} : /\ pc'[h] = pc[h] /\ work'[h] = work[h]
                               /\ desired'[h] = desired[h] /\ answered'[h] = answered[h]
  BY <1>1, <1>2, <1>9 DEF Inv, Shapes, DeliverAgain, Goto, external
<1>14. Proposing(g)' => \A h \in Graphs \ {g} :
         Proposing(h) => work[h].checkpoint.plan # work'[g].checkpoint.plan
  BY <1>10 DEF Inv, Distinct
<1> HIDE DEF c
<1> QED
  BY <1>2, <1>7, <1>8, <1>10, <1>11, <1>12, <1>13, <1>14, MemoryStep

(* A step that only moves the process along.                               *)
LEMMA ProcessStep ==
  ASSUME Inv, UNCHANGED <<desired, pc, work, seen, kept, external>>,
         proc' \in {"down", "booting", "serving"}, boot' \subseteq Graphs,
         \A g \in boot' : Retained(g) # None
  PROVE  Inv'
<1>1. StoredGrows
  BY DEF StoredGrows, Stored
<1>2. \A h \in Graphs : Retained(h)' = Retained(h) /\ KeptOf(h)' = KeptOf(h) /\ Untouched(h)
  BY DEF Retained, KeptOf, Untouched
<1>3. \A h \in Graphs : FilesOK(h)' /\ AnswerOK(h)' /\ DesiredOK(h)' /\ WorkOK(h)'
  BY <1>1, <1>2, FilesStay, AnswerStays, DesiredStays, WorkStays DEF Inv, external
<1>4. OfferedOK'
  BY OfferedStays DEF external
<1>5. Distinct'
  <2>1. \A h \in Graphs : Proposing(h)' = Proposing(h)
    BY DEF Proposing
  <2> QED
    BY <2>1 DEF Inv, Distinct
<1>6. Shapes' /\ BootOK'
  BY <1>2 DEF Inv, Shapes, BootOK, external
<1> QED
  BY <1>3, <1>4, <1>5, <1>6 DEF Inv

(* A process that starts takes on the checkpoints that are there.          *)
LEMMA BootStep ==
  ASSUME Inv, Boot
  PROVE  Inv'
  BY ProcessStep DEF Boot

(* When nothing is left to resume, requests are served.                    *)
LEMMA ServeStep ==
  ASSUME Inv, Serve
  PROVE  Inv'
  BY ProcessStep DEF Serve, Inv, Shapes

(* A graph is resumed when its pending report has been dealt with.         *)
LEMMA ResumedStep ==
  ASSUME Inv, NEW g \in Graphs, Resumed(g)
  PROVE  Inv'
  BY ProcessStep DEF Resumed, Inv, Shapes, BootOK

(* The process ends; the files are left as they are, or as a loss of power *)
(* leaves them.                                                            *)
LEMMA DownStep ==
  ASSUME Inv, Down, DOMAIN seen' = Files, DOMAIN kept' = Files,
         \A f \in Files : seen'[f] \in {seen[f], kept[f]} /\ kept'[f] \in {seen[f], kept[f]},
         \A g \in Graphs : FilesOK(g)'
  PROVE  Inv'
<1>1. /\ proc' = "down" /\ boot' = {} /\ desired' = [g \in Graphs |-> None]
      /\ pc' = [g \in Graphs |-> "idle"] /\ work' = [g \in Graphs |-> Idle]
      /\ UNCHANGED <<created, answered, offered>>
  BY DEF Down, external
<1>2. Shapes'
  BY <1>1 DEF Inv, Shapes
<1>3. StoredGrows
  <2>1. \A p \in PlanIds : \A f \in ArtifactFiles(p) : f \in Files
    BY FilesTyped
  <2> QED
    BY <2>1 DEF StoredGrows, Stored
<1>4. \A g \in Graphs : AnswerOK(g)'
  <2>1. \A g \in Graphs : KeptOf(g)' \in {KeptOf(g), Retained(g)}
    BY FilesTyped DEF KeptOf, Retained
  <2> QED
    BY <1>1, <2>1, AnswerStays DEF Inv
<1>5. \A g \in Graphs : DesiredOK(g)' /\ WorkOK(g)' /\ ~Proposing(g)'
  BY <1>1 DEF DesiredOK, WorkOK, Proposing, Labels, Idle
<1>6. OfferedOK'
  BY <1>1, <1>3 DEF Inv, OfferedOK, Persisted, StoredGrows
<1>7. Distinct' /\ BootOK'
  BY <1>1, <1>5 DEF Distinct, BootOK
<1> QED
  BY <1>2, <1>4, <1>5, <1>6, <1>7 DEF Inv

(* A crash, or a resume that fails, loses memory only.                     *)
LEMMA ProcessEnds ==
  ASSUME Inv, Down, UNCHANGED <<seen, kept>>
  PROVE  Inv'
<1>1. StoredGrows /\ \A g \in Graphs : Retained(g)' = Retained(g) /\ KeptOf(g)' = KeptOf(g)
  BY DEF StoredGrows, Stored, Retained, KeptOf
<1>2. \A g \in Graphs : FilesOK(g)'
  BY <1>1, FilesStay DEF Inv
<1> QED
  BY <1>2, DownStep DEF Inv, Shapes

(* A loss of power leaves of each file what is seen or what was synced.    *)
LEMMA PowerLossStep ==
  ASSUME Inv, PowerLoss
  PROVE  Inv'
<1>1. PICK lost \in SUBSET {f \in Files : seen[f] # kept[f]} :
        seen' = [f \in Files |-> IF f \in lost THEN kept[f] ELSE seen[f]]
  BY DEF PowerLoss
<1>2. kept' = seen' /\ Down
  BY DEF PowerLoss
<1>3. \A f \in Files : seen'[f] \in {seen[f], kept[f]} /\ kept'[f] \in {seen[f], kept[f]}
  BY <1>1, <1>2
<1>4. StoredGrows
  BY <1>3, FilesTyped DEF StoredGrows, Stored
<1>5. ASSUME NEW g \in Graphs PROVE FilesOK(g)'
  <2>1. PICK c : c \in {Retained(g), KeptOf(g)} /\ Retained(g)' = c /\ KeptOf(g)' = c
    BY <1>2, <1>3, FilesTyped DEF Retained, KeptOf
  <2>2. c # None => c \in CheckpointsOf(g) /\ Backed(c)
    BY <2>1 DEF Inv, FilesOK
  <2>3. c # None => Backed(c)' /\ Follows(Identity(c), c.retired, c)
    BY <1>4, <2>2, BackedStays, FollowsItself DEF CheckpointsOf
  <2> QED
    BY <2>1, <2>2, <2>3 DEF FilesOK
<1> QED
  BY <1>1, <1>2, <1>3, <1>5, DownStep

-----------------------------------------------------------------------------
(* Files change                                                            *)

(* A step of the activity of g that touches files.                         *)
LEMMA DiskStep ==
  ASSUME Inv, StoredGrows, UNCHANGED <<memory, external>>, Shapes', NEW g \in Graphs,
         \A h \in Graphs \ {g} : /\ pc'[h] = pc[h] /\ work'[h] = work[h] /\ Untouched(h)
                                 /\ Retained(h)' = Retained(h)
                                 /\ KeptOf(h)' \in {KeptOf(h), Retained(h)},
         FilesOK(g)', AnswerOK(g)', DesiredOK(g)', WorkOK(g)',
         Retained(g)' = None => Retained(g) = None,
         Proposing(g)' => Proposing(g) /\ work'[g].checkpoint = work[g].checkpoint
  PROVE  Inv'
<1>1. \A h \in Graphs : FilesOK(h)' /\ AnswerOK(h)' /\ DesiredOK(h)' /\ WorkOK(h)'
  BY FilesStay, AnswerStays, DesiredStays, WorkStays DEF Inv, memory, external
<1>2. OfferedOK'
  BY DEF Inv, OfferedOK, Persisted, StoredGrows, external
<1>3. Distinct'
  <2>1. \A h \in Graphs \ {g} : Proposing(h)' = Proposing(h)
    BY DEF Proposing
  <2> QED
    BY <2>1 DEF Inv, Distinct
<1>4. BootOK'
  BY DEF Inv, BootOK, Shapes, memory
<1> QED
  BY <1>1, <1>2, <1>3, <1>4 DEF Inv

(* What is being written, while a plan is.                                 *)
LEMMA PlanBeingWritten ==
  ASSUME Inv, NEW g \in Graphs, Proposing(g)
  PROVE  LET c == work[g].checkpoint
             w == Head(work[g].todo)
         IN  /\ PlannedFor(g, c) /\ c \in Checkpoints /\ c.plan \in PlanIds
             /\ Identity(c) \in Plans /\ w.file \in ArtifactFiles(c.plan)
             /\ w.file \in Files /\ w.content = Identity(c) /\ w = work[g].todo[1]
             /\ \A f \in ArtifactFiles(c.plan) : seen[f] \in {None, Identity(c)}
             /\ ProposeOK(g)
<1> DEFINE c == work[g].checkpoint
<1>1. ProposeOK(g)
  BY DEF Inv, WorkOK
<1>2. /\ PlannedFor(g, c) /\ work[g].todo # << >>
      /\ work[g].todo \in Seq([file : ArtifactFiles(c.plan), content : {Identity(c)}])
      /\ \A f \in ArtifactFiles(c.plan) : seen[f] \in {None, Identity(c)}
  BY <1>1 DEF ProposeOK
<1>3. c \in Checkpoints /\ c.plan \in PlanIds /\ Identity(c) \in Plans
  BY <1>2, CheckpointShape DEF PlannedFor, CheckpointsOf
<1>4. /\ Head(work[g].todo) = work[g].todo[1] /\ work[g].todo[1].file \in ArtifactFiles(c.plan)
      /\ work[g].todo[1].content = Identity(c)
  <2>1. PICK F, x, todo : F = ArtifactFiles(c.plan) /\ x = Identity(c) /\ todo = work[g].todo
    OBVIOUS
  <2> HIDE DEF c
  <2>2. todo \in Seq([file : F, content : {x}]) /\ todo # << >>
    BY <1>2, <2>1
  <2>3. Head(todo) = todo[1]
    BY <2>2, FirstWrite
  <2>4. todo[1].file \in F
    BY <2>2, FirstWrite
  <2>5. todo[1].content = x
    <3> DEFINE W == [file : F, content : {x}]
    <3>1. \A w \in W : w.content = x
      OBVIOUS
    <3>2. todo \in Seq(W)
      BY <2>2
    <3> HIDE DEF W
    <3>3. Len(todo) \in Nat /\ Len(todo) >= 1
      BY <2>2, FirstWrite
    <3>4. todo[1] \in W
      BY <3>2, <3>3
    <3> QED
      BY <3>1, <3>4
  <2> QED
    BY <2>1, <2>3, <2>4, <2>5
<1> HIDE DEF c
<1> QED
  BY <1>1, <1>2, <1>3, <1>4, FilesTyped DEF c

(* Another activity's plan is not touched by the writes of a plan of g.    *)
LEMMA OtherPlansUntouched ==
  ASSUME Inv, NEW g \in Graphs, Proposing(g), NEW h \in Graphs \ {g},
         \A f \in Files : f \notin ArtifactFiles(work[g].checkpoint.plan) => seen'[f] = seen[f],
         \A f \in Files : kept'[f] \in {kept[f], seen[f]}
  PROVE  Untouched(h)
<1> SUFFICES ASSUME Proposing(h), NEW f \in ArtifactFiles(work[h].checkpoint.plan)
             PROVE  seen'[f] = seen[f] /\ kept'[f] \in {kept[f], seen[f]}
  BY DEF Untouched
<1>1. /\ work[g].checkpoint.plan \in PlanIds /\ work[h].checkpoint.plan \in PlanIds
      /\ work[g].checkpoint.plan # work[h].checkpoint.plan
  BY PlanBeingWritten DEF Inv, Distinct
<1>2. f \notin ArtifactFiles(work[g].checkpoint.plan) /\ f \in Files
  BY <1>1, FilesDiffer, FilesTyped
<1> QED
  BY <1>2

(* A file of a plan and its review takes the place of an absent one, or of *)
(* the same.                                                               *)
LEMMA RenamePlanStep ==
  ASSUME Inv, NEW g \in Graphs, Rename(g), work[g].next = "create"
  PROVE  Inv'
<1>1. /\ pc[g] = "rename" /\ pc' = [pc EXCEPT ![g] = "sync"]
      /\ UNCHANGED <<memory, work, kept, external>> /\ Proposing(g)
  BY DEF Rename, Goto, Proposing
<1>2. PICK c, x, f0 : /\ c = work[g].checkpoint /\ x = Identity(c)
                      /\ f0 = Head(work[g].todo).file
  OBVIOUS
<1>3. /\ PlannedFor(g, c) /\ c \in Checkpoints /\ c.plan \in PlanIds /\ x \in Plans
      /\ f0 \in ArtifactFiles(c.plan) /\ f0 \in Files /\ f0 = work[g].todo[1].file
      /\ Head(work[g].todo).content = x
      /\ \A f \in ArtifactFiles(c.plan) : seen[f] \in {None, x}
  BY <1>1, <1>2, PlanBeingWritten
<1>4. seen' = [seen EXCEPT ![f0] = x]
  BY <1>2, <1>3 DEF Rename
<1>5. seen'[f0] = x /\ \A f \in Files : f # f0 => seen'[f] = seen[f]
  BY <1>3, <1>4 DEF Inv, Shapes
<1>6. StoredGrows
  <2> SUFFICES ASSUME NEW p \in PlanIds, NEW y \in Plans, Stored(p, y),
                      NEW f \in ArtifactFiles(p)
               PROVE  seen'[f] = y /\ kept'[f] = y
    BY DEF StoredGrows, Stored
  <2>1. seen[f] = y /\ kept[f] = y /\ f \in Files
    BY FilesTyped DEF Stored
  <2>2. f = f0 => y = x
    <3>1. y # None
      BY NoneIsNoContent
    <3> QED
      BY <1>3, <2>1, <3>1
  <2> QED
    BY <1>1, <1>5, <2>1, <2>2
<1>7. \A h \in Graphs : Retained(h)' = Retained(h) /\ KeptOf(h)' = KeptOf(h)
  <2>1. \A h \in Graphs : CheckpointFile(h) # f0 /\ CheckpointFile(h) \in Files
    BY <1>3, FilesDiffer, FilesTyped
  <2> QED
    BY <1>1, <1>5, <2>1 DEF Retained, KeptOf
<1>8. \A h \in Graphs \ {g} : Untouched(h)
  BY <1>1, <1>2, <1>3, <1>5, OtherPlansUntouched
<1>9. FilesOK(g)' /\ AnswerOK(g)' /\ DesiredOK(g)'
  BY <1>1, <1>6, <1>7, FilesStay, AnswerStays, DesiredStays DEF Inv, memory, external
<1>10. ProposeOK(g)'
  <2>1. PICK todo : todo = work[g].todo
    OBVIOUS
  <2>2. /\ todo \in Seq([file : ArtifactFiles(c.plan), content : {x}]) /\ todo # << >>
        /\ \A f \in ArtifactFiles(c.plan) :
             \/ seen[f] = x /\ kept[f] = x
             \/ seen[f] \in {None, x} /\ \E i \in 1 .. Len(todo) : todo[i].file = f
    BY <1>1, <1>2, <2>1, PlanBeingWritten DEF ProposeOK
  <2>3. work'[g].todo = todo /\ work'[g].checkpoint = c
    BY <1>1, <1>2, <2>1
  <2>4. \A f \in ArtifactFiles(c.plan) :
          \/ seen'[f] = x /\ kept'[f] = x
          \/ seen'[f] \in {None, x} /\ \E i \in 1 .. Len(todo) : todo[i].file = f
    <3>1. \A f \in ArtifactFiles(c.plan) :
            seen'[f] = seen[f] \/ (f = f0 /\ seen'[f] = x)
      <4>1. \A f \in ArtifactFiles(c.plan) : f \in Files
        BY <1>3, FilesTyped
      <4> QED
        BY <1>5, <4>1
    <3> QED
      BY <1>1, <2>2, <3>1
  <2>5. PlannedFor(g, c)'
    BY <1>3, <1>7 DEF PlannedFor
  <2>6. seen'[todo[1].file] = x
    BY <1>3, <1>5, <2>1
  <2> QED
    BY <1>2, <2>2, <2>3, <2>4, <2>5, <2>6 DEF ProposeOK
<1>11. WorkOK(g)' /\ work'[g].checkpoint = work[g].checkpoint
  <2>1. pc'[g] = "sync" /\ work'[g] = work[g]
    BY <1>1 DEF Inv, Shapes
  <2> QED
    BY <1>10, <2>1 DEF Inv, WorkOK, Labels
<1>12. Shapes'
  <2>1. \A f \in Files : seen'[f] \in Contents(f) \cup {None}
    BY <1>3, <1>5, FilesTyped DEF Inv, Shapes
  <2> QED
    BY <1>1, <1>4, <2>1 DEF Inv, Shapes, memory, external
<1>13. \A h \in Graphs \ {g} : pc'[h] = pc[h] /\ work'[h] = work[h]
  BY <1>1 DEF Inv, Shapes
<1> QED
  BY <1>1, <1>6, <1>7, <1>8, <1>9, <1>11, <1>12, <1>13, DiskStep

(* The file of g's checkpoint takes the place of the one before it.        *)
LEMMA RenameCheckpointStep ==
  ASSUME Inv, NEW g \in Graphs, Rename(g), work[g].next # "create"
  PROVE  Inv'
<1>1. /\ pc[g] = "rename" /\ pc' = [pc EXCEPT ![g] = "sync"]
      /\ UNCHANGED <<memory, work, kept, external>>
  BY DEF Rename, Goto
<1>2. PICK c \in CheckpointsOf(g) :
        /\ work[g].todo = Save(c)
        /\ work[g].next \in {"accepted", "retired", "deliver", "idle"}
        /\ Succeeds(c, Retained(g)) /\ Backed(c)
        /\ work[g].next # "idle" => work[g].checkpoint = c
        /\ work[g].next = "accepted" => work[g].slice \in Slices /\ c = Fresh(work[g].slice)
  BY <1>1 DEF Inv, WorkOK, SaveOK
<1>3. c \in Checkpoints /\ c.graph = g /\ c # None /\ Identity(c) \in Plans
  BY <1>2, CheckpointShape, NoneIsNoContent DEF CheckpointsOf
<1>4. seen' = [seen EXCEPT ![CheckpointFile(g)] = c]
  <2>1. PICK w : w = [file |-> CheckpointFile(g), content |-> c]
    OBVIOUS
  <2>2. work[g].todo = << w >>
    BY <1>2, <1>3, <2>1 DEF Save, Write
  <2>3. Head(work[g].todo) = w
    BY <2>2
  <2>4. Head(work[g].todo).file = CheckpointFile(g) /\ Head(work[g].todo).content = c
    BY <2>1, <2>3
  <2> QED
    BY <2>4 DEF Rename
<1>5. /\ seen'[CheckpointFile(g)] = c
      /\ \A f \in Files : f # CheckpointFile(g) => seen'[f] = seen[f]
  BY <1>4, FilesTyped DEF Inv, Shapes
<1>6. \A p \in PlanIds : \A f \in ArtifactFiles(p) : seen'[f] = seen[f] /\ kept'[f] = kept[f]
  BY <1>1, <1>5, FilesDiffer, FilesTyped
<1>7. StoredGrows
  BY <1>6 DEF StoredGrows, Stored
<1>8. \A h \in Graphs \ {g} :
        Untouched(h) /\ Retained(h)' = Retained(h) /\ KeptOf(h)' = KeptOf(h)
  <2>1. \A h \in Graphs : Proposing(h) => work[h].checkpoint.plan \in PlanIds
    BY PlanBeingWritten
  <2> QED
    BY <1>1, <1>5, <1>6, <2>1, FilesDiffer, FilesTyped DEF Untouched, Retained, KeptOf
<1>9. Retained(g)' = c /\ KeptOf(g)' = KeptOf(g)
  BY <1>1, <1>5 DEF Retained, KeptOf
<1>10. Backed(c)'
  BY <1>2, <1>3, <1>7, BackedStays
<1>11. FilesOK(g)'
  <2> SUFFICES ASSUME NEW k, k = KeptOf(g), k # None
               PROVE  /\ k \in CheckpointsOf(g) /\ Backed(k)'
                      /\ Follows(Identity(k), k.retired, c)
    BY <1>2, <1>9, <1>10 DEF FilesOK
  <2>1. /\ k \in CheckpointsOf(g) /\ Backed(k) /\ k \in Checkpoints
        /\ Follows(Identity(k), k.retired, Retained(g))
    BY DEF Inv, FilesOK, CheckpointsOf
  <2>2. Retained(g) # None /\ Retained(g) \in Checkpoints
    BY <2>1, RetainedShape DEF Follows
  <2>3. Follows(Identity(Retained(g)), Retained(g).retired, c)
    BY <1>2, <2>2 DEF Succeeds
  <2>4. Identity(k) \in Plans
    BY <2>1, CheckpointShape
  <2> QED
    BY <1>3, <1>7, <2>1, <2>2, <2>3, <2>4, FollowsOn, BackedStays
<1>12. DesiredOK(g)'
  <2> SUFFICES ASSUME NEW slice, slice = desired[g], slice # None
               PROVE  /\ slice \in Slices /\ slice.graph = g /\ slice.sequence <= c.sequence
                      /\ slice.sequence = c.sequence => PlanFor(slice) = Identity(c)
    BY <1>1, <1>3, <1>9 DEF DesiredOK, memory
  <2>1. PICK old : old = Retained(g)
    OBVIOUS
  <2>2. /\ slice \in Slices /\ slice.graph = g /\ old # None /\ slice.sequence <= old.sequence
        /\ slice.sequence = old.sequence => PlanFor(slice) = Identity(old)
    BY <2>1 DEF Inv, DesiredOK
  <2>3. old \in Checkpoints
    BY <2>1, <2>2, RetainedShape
  <2>4. /\ slice.sequence \in Nat /\ old.sequence \in Nat /\ c.sequence \in Nat
        /\ Identity(old) \in Plans /\ Identity(old).sequence = old.sequence
        /\ Identity(old).digest = old.digest
        /\ Identity(c).sequence = c.sequence /\ Identity(c).digest = c.digest
    BY <1>3, <2>2, <2>3, SlicesAreDescribed, CheckpointShape
  <2>5. /\ c.sequence >= old.sequence
        /\ c.sequence = old.sequence => c.digest = old.digest
    BY <1>2, <2>1, <2>2, <2>4 DEF Succeeds, Follows
  <2>6. c.sequence = old.sequence => Identity(c) = Identity(old)
    BY <1>3, <2>4, <2>5, SamePlan
  <2> QED
    BY <2>2, <2>4, <2>5, <2>6
<1>13. AnswerOK(g)'
  BY <1>1, <1>9, AnswerStays DEF Inv, external
<1>14. WorkOK(g)'
  <2>1. pc'[g] = "sync" /\ work'[g] = work[g]
    BY <1>1 DEF Inv, Shapes
  <2>2. SaveOK(g)'
    BY <1>2, <1>9, <2>1 DEF SaveOK
  <2> QED
    BY <2>1, <2>2 DEF Inv, WorkOK, Labels, Proposing
<1>15. Shapes'
  <2>1. \A f \in Files : seen'[f] \in Contents(f) \cup {None}
    BY <1>3, <1>5, FilesTyped DEF Inv, Shapes
  <2> QED
    BY <1>1, <1>4, <2>1 DEF Inv, Shapes, memory, external
<1>16. \A h \in Graphs \ {g} : pc'[h] = pc[h] /\ work'[h] = work[h]
  BY <1>1 DEF Inv, Shapes
<1>17. ~Proposing(g)'
  BY <1>1 DEF Proposing
<1> QED
  BY <1>1, <1>3, <1>7, <1>8, <1>9, <1>11, <1>12, <1>13, <1>14, <1>15, <1>16, <1>17, DiskStep

(* What a sync of a directory changes of the files that survive.           *)
LEMMA SyncedFiles ==
  ASSUME Inv, NEW g \in Graphs, Sync(g)
  PROVE  /\ \A f \in Files : seen'[f] = seen[f] /\ kept'[f] \in {kept[f], seen[f]}
         /\ Head(work[g].todo).file \in Files =>
              kept'[Head(work[g].todo).file] = seen[Head(work[g].todo).file]
         /\ DOMAIN kept' = Files /\ StoredGrows
         /\ \A h \in Graphs : /\ Retained(h)' = Retained(h) /\ Untouched(h)
                              /\ KeptOf(h)' \in {KeptOf(h), Retained(h)}
<1>1. PICK f0 : f0 = Head(work[g].todo).file
  OBVIOUS
<1>2. /\ kept' = [f \in Files |-> IF Directory(f) = Directory(f0) THEN seen[f] ELSE kept[f]]
      /\ seen' = seen
  BY <1>1 DEF Sync, Synced
<1>3. /\ \A f \in Files : seen'[f] = seen[f] /\ kept'[f] \in {kept[f], seen[f]}
      /\ f0 \in Files => kept'[f0] = seen[f0]
      /\ DOMAIN kept' = Files
  BY <1>2
<1>4. \A p \in PlanIds : \A f \in ArtifactFiles(p) :
        seen'[f] = seen[f] /\ kept'[f] \in {kept[f], seen[f]}
  BY <1>3, FilesTyped
<1>5. StoredGrows
  BY <1>4 DEF StoredGrows, Stored
<1>6. ASSUME NEW h \in Graphs
      PROVE  /\ Retained(h)' = Retained(h) /\ Untouched(h)
             /\ KeptOf(h)' \in {KeptOf(h), Retained(h)}
  <2>1. Proposing(h) => work[h].checkpoint.plan \in PlanIds
    BY PlanBeingWritten
  <2> QED
    BY <1>3, <1>4, <2>1, FilesTyped DEF Untouched, Retained, KeptOf
<1> QED
  BY <1>1, <1>3, <1>5, <1>6

(* A file of a plan survives from now on; the next one is written, or all  *)
(* are there.                                                              *)
LEMMA SyncedPlanWork ==
  ASSUME Inv, NEW g \in Graphs, Sync(g), work[g].next = "create"
  PROVE  WorkOK(g)'
<1>1. PICK c, x, todo : c = work[g].checkpoint /\ x = Identity(c) /\ todo = work[g].todo
  OBVIOUS
<1>2. /\ pc[g] = "sync" /\ Proposing(g)
      /\ pc'[g] = IF Len(todo) = 1 THEN "create" ELSE "rename"
      /\ work'[g] = [work[g] EXCEPT !.todo = Tail(todo)]
  BY <1>1 DEF Sync, Goto, Proposing, Inv, Shapes
<1>3. work'[g] = [todo |-> Tail(todo), next |-> "create", checkpoint |-> c,
                  slice |-> work[g].slice]
  BY <1>1, <1>2 DEF Inv, WorkOK
<1>4. /\ work'[g].todo = Tail(todo) /\ work'[g].next = "create" /\ work'[g].checkpoint = c
      /\ work'[g] = [todo |-> work'[g].todo, next |-> work'[g].next,
                     checkpoint |-> work'[g].checkpoint, slice |-> work'[g].slice]
  BY <1>3
<1>5. /\ PlannedFor(g, c) /\ c.plan \in PlanIds /\ todo[1].file \in ArtifactFiles(c.plan)
      /\ todo[1].file \in Files /\ Head(todo) = todo[1] /\ ProposeOK(g)
  BY <1>1, <1>2, PlanBeingWritten
<1>6. /\ todo \in Seq([file : ArtifactFiles(c.plan), content : {x}]) /\ todo # << >>
      /\ \A f \in ArtifactFiles(c.plan) :
           \/ seen[f] = x /\ kept[f] = x
           \/ seen[f] \in {None, x} /\ \E i \in 1 .. Len(todo) : todo[i].file = f
      /\ seen[todo[1].file] = x
  BY <1>1, <1>2, <1>5 DEF ProposeOK
<1>7. PICK F : F = ArtifactFiles(c.plan)
  OBVIOUS
<1>8. /\ Len(todo) \in Nat /\ Len(todo) >= 1 /\ (Len(todo) # 1 => Tail(todo) # << >>)
      /\ Tail(todo) \in Seq([file : F, content : {x}]) /\ Len(Tail(todo)) = Len(todo) - 1
      /\ \A i \in 1 .. Len(todo) - 1 : Tail(todo)[i] = todo[i + 1]
  <2>1. todo \in Seq([file : F, content : {x}]) /\ todo # << >>
    BY <1>6, <1>7
  <2>2. Len(todo) \in Nat /\ Len(todo) >= 1
    BY <2>1, FirstWrite
  <2>3. Tail(todo) \in Seq([file : F, content : {x}])
    BY <2>1, FirstWrite
  <2>4. Len(Tail(todo)) = Len(todo) - 1
    BY <2>1, FirstWrite
  <2>5. Len(todo) # 1 => Tail(todo) # << >>
    <3>1. Len(<< >>) = 0
      OBVIOUS
    <3>2. Len(todo) # 1 => Len(Tail(todo)) # 0
      BY <2>2, <2>4
    <3> QED
      BY <3>1, <3>2
  <2>6. \A i \in 1 .. Len(todo) - 1 : Tail(todo)[i] = todo[i + 1]
    BY <2>1, FirstWrite
  <2> QED
    BY <2>2, <2>3, <2>4, <2>5, <2>6
<1>9. /\ \A f \in F : seen'[f] = seen[f] /\ kept'[f] \in {kept[f], seen[f]}
      /\ kept'[todo[1].file] = x
  <2>1. \A f \in F : f \in Files
    BY <1>5, <1>7, FilesTyped
  <2> QED
    BY <1>1, <1>5, <1>6, <2>1, SyncedFiles
<1>10. \A f \in F :
         \/ seen'[f] = x /\ kept'[f] = x
         \/ /\ seen'[f] \in {None, x}
            /\ \E i \in 1 .. Len(todo) - 1 : Tail(todo)[i].file = f
  <2> SUFFICES ASSUME NEW f \in F, ~ (seen'[f] = x /\ kept'[f] = x)
               PROVE  /\ seen'[f] \in {None, x}
                      /\ \E i \in 1 .. Len(todo) - 1 : Tail(todo)[i].file = f
    OBVIOUS
  <2>1. f # todo[1].file /\ ~ (seen[f] = x /\ kept[f] = x)
    BY <1>6, <1>9
  <2>2. PICK i \in 1 .. Len(todo) : seen[f] \in {None, x} /\ todo[i].file = f
    BY <1>6, <1>7, <2>1
  <2>3. i - 1 \in 1 .. Len(todo) - 1 /\ Tail(todo)[i - 1] = todo[i]
    BY <1>8, <2>1, <2>2
  <2> QED
    BY <1>9, <2>2, <2>3
<1>11. PlannedFor(g, c)'
  BY <1>5, SyncedFiles DEF PlannedFor
<1>12. CASE Len(todo) = 1
  <2>1. Stored(c.plan, x)'
    BY <1>7, <1>10, <1>12 DEF Stored
  <2> QED
    BY <1>1, <1>2, <1>4, <1>11, <1>12, <2>1 DEF WorkOK, Labels, Proposing
<1>13. CASE Len(todo) # 1
  <2>1. ProposeOK(g)'
    BY <1>1, <1>2, <1>4, <1>7, <1>8, <1>10, <1>11, <1>13 DEF ProposeOK
  <2> QED
    BY <1>2, <1>4, <1>13, <2>1 DEF WorkOK, Labels, Proposing
<1> QED
  BY <1>12, <1>13

(* The checkpoint survives from now on.                                    *)
LEMMA SyncedCheckpointWork ==
  ASSUME Inv, NEW g \in Graphs, Sync(g), work[g].next # "create"
  PROVE  WorkOK(g)'
<1>1. pc[g] = "sync"
  BY DEF Sync
<1>2. PICK c \in CheckpointsOf(g) :
        /\ work[g].todo = Save(c) /\ Retained(g) = c
        /\ work[g].next \in {"accepted", "retired", "deliver", "idle"}
        /\ work[g].next # "idle" => work[g].checkpoint = c
        /\ work[g].next = "accepted" => work[g].slice \in Slices /\ c = Fresh(work[g].slice)
  BY <1>1 DEF Inv, WorkOK, SaveOK
<1>3. Len(work[g].todo) = 1 /\ Head(work[g].todo).file = CheckpointFile(g)
  <2>1. PICK w : w = [file |-> CheckpointFile(g), content |-> c]
    OBVIOUS
  <2>2. work[g].todo = << w >>
    BY <1>2, <2>1 DEF Save, Write, CheckpointsOf
  <2>3. Len(work[g].todo) = 1 /\ Head(work[g].todo) = w
    BY <2>2
  <2> QED
    BY <2>1, <2>3
<1>4. /\ pc'[g] = work[g].next
      /\ work'[g] = [work[g] EXCEPT !.todo = Tail(work[g].todo)]
  BY <1>3 DEF Sync, Goto, Inv, Shapes
<1>5. work'[g] = [todo |-> Tail(work[g].todo), next |-> work[g].next,
                  checkpoint |-> work[g].checkpoint, slice |-> work[g].slice]
  BY <1>4 DEF Inv, WorkOK
<1>6. Retained(g)' = c /\ KeptOf(g)' = c
  BY <1>2, <1>3, SyncedFiles, FilesTyped DEF Retained, KeptOf
<1> QED
  BY <1>2, <1>4, <1>5, <1>6 DEF WorkOK, Labels, Proposing

(* A sync keeps the invariant, of a plan's file or a checkpoint's.         *)
LEMMA SyncStep ==
  ASSUME Inv, NEW g \in Graphs, Sync(g)
  PROVE  Inv'
<1>1. /\ pc[g] = "sync" /\ UNCHANGED <<memory, seen, external>>
      /\ work' = [work EXCEPT ![g].todo = Tail(@)]
      /\ pc' = [pc EXCEPT ![g] = IF Len(work[g].todo) = 1 THEN work[g].next ELSE "rename"]
  BY DEF Sync, Goto
<1>2. FilesOK(g)' /\ AnswerOK(g)' /\ DesiredOK(g)'
  BY <1>1, SyncedFiles, FilesStay, AnswerStays, DesiredStays DEF Inv, memory, external
<1>3. WorkOK(g)'
  BY SyncedPlanWork, SyncedCheckpointWork
<1>4. Shapes'
  <2>1. DOMAIN kept' = Files /\ \A f \in Files : kept'[f] \in {kept[f], seen[f]}
    BY SyncedFiles
  <2> QED
    BY <1>1, <2>1 DEF Inv, Shapes, memory, external
<1>5. \A h \in Graphs \ {g} : pc'[h] = pc[h] /\ work'[h] = work[h]
  BY <1>1 DEF Inv, Shapes
<1>6. work'[g].next = work[g].next /\ work'[g].checkpoint = work[g].checkpoint
  <2>1. work'[g] = [work[g] EXCEPT !.todo = Tail(work[g].todo)]
    BY <1>1 DEF Inv, Shapes
  <2> QED
    BY <2>1 DEF Inv, WorkOK
<1>7. Proposing(g)' => Proposing(g)
  BY <1>1, <1>6 DEF Proposing
<1> QED
  BY <1>1, <1>2, <1>3, <1>4, <1>5, <1>6, <1>7, SyncedFiles, DiskStep

(* A failed write ends its activity, and leaves what was written.          *)
LEMMA WriteFailsStep ==
  ASSUME Inv, NEW g \in Graphs, WriteFails(g)
  PROVE  Inv'
<1>1. UNCHANGED <<seen, kept>> /\ (Down \/ (End(g) /\ UNCHANGED <<memory, external>>))
  BY DEF WriteFails
<1>2. CASE Down
  BY <1>1, <1>2, ProcessEnds
<1>3. CASE End(g) /\ UNCHANGED <<memory, external>>
  <2>1. Retained(g)' = Retained(g) /\ KeptOf(g)' = KeptOf(g)
    BY <1>1 DEF Retained, KeptOf
  <2>2. DesiredOK(g)' /\ AnswerOK(g)' /\ OfferedOK'
    BY <1>1, <1>3, <2>1, DesiredStays, AnswerStays, OfferedStays DEF Inv, memory, external
  <2>3. /\ desired' = [desired EXCEPT ![g] = desired[g]]
        /\ answered' = [answered EXCEPT ![g] = answered[g]]
    BY <1>3 DEF Inv, Shapes, memory, external
  <2>4. created' \subseteq PlanIds
    BY <1>3 DEF Inv, Shapes, external
  <2> QED
    BY <1>1, <1>3, <2>2, <2>3, <2>4, EndStep DEF memory
<1> QED
  BY <1>1, <1>2, <1>3

-----------------------------------------------------------------------------
(* Every step                                                              *)

(* An empty directory and an idle process satisfy the invariant.           *)
LEMMA InitInv == Init => Inv
<1> SUFFICES ASSUME Init PROVE Inv
  OBVIOUS
<1>1. Shapes
  BY DEF Init, Shapes
<1>2. \A g \in Graphs : Retained(g) = None /\ KeptOf(g) = None
  BY FilesTyped DEF Init, Retained, KeptOf
<1>3. \A g \in Graphs : /\ desired[g] = None /\ pc[g] = "idle" /\ work[g] = Idle
                        /\ answered[g] = None
  BY DEF Init
<1>4. \A g \in Graphs : FilesOK(g) /\ AnswerOK(g) /\ DesiredOK(g) /\ WorkOK(g) /\ ~Proposing(g)
  BY <1>2, <1>3 DEF FilesOK, AnswerOK, DesiredOK, WorkOK, Proposing, Labels, Idle
<1>5. OfferedOK /\ BootOK
  BY DEF Init, OfferedOK, BootOK
<1> QED
  BY <1>1, <1>4, <1>5 DEF Inv, Distinct

(* Every step keeps the invariant.                                         *)
LEMMA StepInv == Inv /\ [Next]_vars => Inv'
<1> SUFFICES ASSUME Inv, [Next]_vars PROVE Inv'
  OBVIOUS
<1>1. ASSUME NEW request \in Requests, Receive(request) PROVE Inv'
  <2>1. PICK slice \in Slices : AcceptNew(slice) \/ AcceptKnown(slice)
    BY <1>1 DEF Receive, Slices
  <2> QED
    BY <2>1, AcceptNewStep, AcceptKnownStep
<1>2. ASSUME NEW g \in Graphs, Rpc(g) PROVE Inv'
  BY <1>2, AnswerAcceptedStep, RetireStep, AnswerRetiredStep DEF Rpc
<1>3. ASSUME NEW g \in Graphs, Pass(g) PROVE Inv'
  BY <1>3, ProposeStep, CreateStep, UsePlanStep, ReportLevelStep, RedeliverStep, DeliverStep,
     CallFailsStep DEF Pass
<1>4. ASSUME NEW g \in Graphs, Disk(g) PROVE Inv'
  BY <1>4, RenamePlanStep, RenameCheckpointStep, SyncStep, WriteFailsStep DEF Disk
<1>5. ASSUME NEW g \in Graphs, ResumeGraph(g) \/ Resumed(g) \/ ResumeFails(g) PROVE Inv'
  BY <1>5, ResumeGraphStep, ResumedStep, ProcessEnds DEF ResumeFails
<1>6. CASE Lifecycle
  BY <1>6, ProcessEnds, PowerLossStep, BootStep, ServeStep DEF Lifecycle, Crash
<1>7. CASE UNCHANGED vars
  <2>1. /\ UNCHANGED <<desired, pc, work, seen, kept, external>>
        /\ proc' = proc /\ boot' = boot
    BY <1>7 DEF vars, external
  <2> QED
    BY <2>1, ProcessStep DEF Inv, Shapes, BootOK
<1> QED
  BY <1>1, <1>2, <1>3, <1>4, <1>5, <1>6, <1>7 DEF Next

(* The invariant holds throughout.                                         *)
THEOREM Invariance == Spec => []Inv
  BY InitInv, StepInv, PTL DEF Spec

(* Every variable keeps its shape, whatever fails and whenever.            *)
THEOREM TypeCorrect == Spec => []TypeOK
<1>1. Inv => TypeOK
  <2> SUFFICES ASSUME Inv PROVE TypeOK
    OBVIOUS
  <2>1. \A g \in Graphs : desired[g] \in Slices \cup {None} /\ pc[g] \in Labels
    BY DEF Inv, DesiredOK, WorkOK
  <2>2. \A g \in Graphs : \A c \in MayRemain(g) :
          c # None => c.graph = g /\ (c.retired => c.plan = None)
    BY DEF Inv, FilesOK, MayRemain, CheckpointsOf, Retained, KeptOf
  <2> QED
    BY <2>1, <2>2 DEF TypeOK, Inv, Shapes, Labels, MayRemain, OfferedOK
<1> QED
  BY <1>1, Invariance, PTL

(* A checkpoint that a loss of power may leave finds the plan it names,    *)
(* with its review, and a plan that core was told of stays to be reviewed: *)
(* persist and save sync one directory after the other, in this order.     *)
THEOREM PlansKeptCorrect == Spec => []PlansAreKept
<1>1. Inv => PlansAreKept
  <2> SUFFICES ASSUME Inv PROVE PlansAreKept
    OBVIOUS
  <2>1. ASSUME NEW g \in Graphs, NEW c \in MayRemain(g), c # None /\ c.plan # None,
               NEW f \in ArtifactFiles(c.plan)
        PROVE  kept[f] = Identity(c)
    <3>1. Backed(c)
      BY <2>1 DEF Inv, FilesOK, MayRemain, Retained, KeptOf
    <3> QED
      BY <2>1, <3>1 DEF Backed, Stored
  <2>2. ASSUME NEW p \in offered, NEW f \in ArtifactFiles(p) PROVE kept[f] # None
    BY NoneIsNoContent DEF Inv, OfferedOK, Persisted, Stored
  <2> QED
    BY <2>1, <2>2 DEF PlansAreKept
<1> QED
  BY <1>1, Invariance, PTL

(* What a request that saved its level was answered outlives every crash,  *)
(* failed write and loss of power: accept and retire answer after the sync.*)
THEOREM AnswersHold == Spec => []SavedAnswersHold
<1>1. Inv => SavedAnswersHold
  <2> SUFFICES ASSUME Inv, NEW g \in Graphs, answered[g] # None, NEW c \in MayRemain(g)
               PROVE  Follows(answered[g].level, answered[g].retired, c)
    BY DEF SavedAnswersHold
  <2>1. PICK level, retired, k : level = answered[g].level /\ retired = answered[g].retired
                                 /\ k = KeptOf(g)
    OBVIOUS
  <2>2. level \in Plans /\ k # None /\ Follows(level, retired, k)
    BY <2>1 DEF Inv, AnswerOK
  <2>3. k \in Checkpoints /\ Follows(Identity(k), k.retired, Retained(g))
    BY <2>1, <2>2 DEF Inv, FilesOK, CheckpointsOf
  <2>4. Retained(g) \in Checkpoints
    BY <2>3 DEF Inv, FilesOK, CheckpointsOf, Follows
  <2>5. Follows(level, retired, Retained(g))
    BY <2>2, <2>3, <2>4, FollowsOn
  <2> QED
    BY <2>1, <2>2, <2>5 DEF MayRemain, Retained, KeptOf
<1> QED
  BY <1>1, Invariance, PTL

(* The checkpoint that survives moves forward only, whichever of the old   *)
(* and the new file a loss of power leaves.                                *)
THEOREM KeptForward == Spec => KeptMovesForward
<1> DEFINE Forward == \A g \in Graphs :
             LET c == kept[CheckpointFile(g)] IN
             c # None => Follows(Identity(c), c.retired, kept'[CheckpointFile(g)])
<1>1. Inv /\ [Next]_vars => [Forward]_vars
  <2> SUFFICES ASSUME Inv, [Next]_vars, NEW g \in Graphs, KeptOf(g) # None
               PROVE  Follows(Identity(KeptOf(g)), KeptOf(g).retired, KeptOf(g)')
    BY DEF KeptOf
  <2>1. /\ KeptOf(g) \in Checkpoints
        /\ Follows(Identity(KeptOf(g)), KeptOf(g).retired, Retained(g))
        /\ Follows(Identity(KeptOf(g)), KeptOf(g).retired, KeptOf(g))
    BY FollowsItself DEF Inv, FilesOK, CheckpointsOf
  <2>2. KeptOf(g)' \in {KeptOf(g), Retained(g)}
    <3>1. CASE kept' = kept
      BY <3>1 DEF KeptOf
    <3>2. CASE kept' # kept
      <4>1. PowerLoss \/ \E h \in Graphs : Sync(h)
        BY <3>2 DEF Next, Receive, AcceptNew, AcceptKnown, Rpc, AnswerAccepted, Retire,
           AnswerRetired, Pass, Propose, Create, UsePlan, ReportLevel, Redeliver, Deliver,
           CallFails, Disk, Rename, WriteFails, ResumeGraph, Resumed, ResumeFails, Lifecycle,
           Crash, Boot, Serve, vars
      <4>2. CASE PowerLoss
        BY <4>2, FilesTyped DEF PowerLoss, KeptOf, Retained
      <4>3. CASE \E h \in Graphs : Sync(h)
        BY <4>3, SyncedFiles
      <4> QED
        BY <4>1, <4>2, <4>3
    <3> QED
      BY <3>1, <3>2
  <2> QED
    BY <2>1, <2>2
<1> QED
  BY <1>1, Invariance, PTL DEF Spec, KeptMovesForward

-----------------------------------------------------------------------------
(* What from_view accepts: induction over the components of a request      *)

(* Of some natural numbers, one is the least.                              *)
LEMMA LeastNatural ==
  ASSUME NEW T, T \subseteq Nat, T # {}
  PROVE  \E n \in T : \A m \in T : n <= m
<1> DEFINE R == OpToRel(<, Nat)
<1>1. IsWellFoundedOn(R, Nat)
  BY NatLessThanWellFounded
<1>2. \A m, n \in Nat : m < n => <<m, n>> \in R
  BY DEF R, OpToRel
<1> HIDE DEF R
<1>3. PICK n \in T : \A m \in T : ~(<<m, n>> \in R)
  BY <1>1, WFMin
<1>4. \A m \in T : m \in Nat /\ n \in Nat /\ ~(m < n)
  BY <1>2, <1>3
<1> QED
  BY <1>4

(* The fold over the first n components, for each set of positions: the    *)
(* last component of the set is inserted after the others.                 *)
Loop(components, n, h) ==
  h = [s \in SUBSET (1 .. n) |->
         IF s = {} THEN NoComponents ELSE Insert(h[s \ {Max(s)}], components[Max(s)])]

(* The last position of a set that has the last of all.                    *)
LEMMA LastPosition ==
  ASSUME NEW n \in Nat, NEW s \in SUBSET (1 .. n), n \in s
  PROVE  Max(s) = n
<1>1. \A x \in s : (\A y \in s : x >= y) => x = n
  OBVIOUS
<1>2. \A y \in s : n >= y
  OBVIOUS
<1>3. PICK x : x = Max(s)
  OBVIOUS
<1>4. x \in s /\ \A y \in s : x >= y
  BY <1>2, <1>3 DEF Max
<1> QED
  BY <1>1, <1>3, <1>4

(* A loop over n + 1 components is a loop over n with one step more.       *)
LEMMA LoopGrows ==
  ASSUME NEW components, NEW n \in Nat, n # 0, NEW h, Loop(components, n - 1, h)
  PROVE  \E g : Loop(components, n, g)
<1> DEFINE g == [s \in SUBSET (1 .. n) |->
                  IF n \in s THEN Insert(h[s \ {n}], components[n]) ELSE h[s]]
<1>1. ASSUME NEW s \in SUBSET (1 .. n)
      PROVE  g[s] = IF s = {} THEN NoComponents
                              ELSE Insert(g[s \ {Max(s)}], components[Max(s)])
  <2>1. CASE n \in s
    <3>1. Max(s) = n /\ s \ {n} \in SUBSET (1 .. n) /\ n \notin s \ {n}
      BY <2>1, LastPosition
    <3>2. g[s \ {n}] = h[s \ {n}]
      BY <3>1
    <3>3. g[s] = Insert(h[s \ {n}], components[n])
      BY <2>1
    <3> HIDE DEF g
    <3> QED
      BY <2>1, <3>1, <3>2, <3>3
  <2>2. CASE n \notin s
    <3>1. s \in SUBSET (1 .. n - 1)
      BY <2>2
    <3>2. h[s] = IF s = {} THEN NoComponents ELSE Insert(h[s \ {Max(s)}], components[Max(s)])
      BY <3>1 DEF Loop
    <3>3. s \ {Max(s)} \in SUBSET (1 .. n) /\ n \notin s \ {Max(s)}
      BY <2>2
    <3>4. g[s \ {Max(s)}] = h[s \ {Max(s)}] /\ g[s] = h[s]
      BY <2>2, <3>3
    <3> HIDE DEF g
    <3> QED
      BY <3>2, <3>4
  <2> QED
    BY <2>1, <2>2
<1>2. g = [s \in SUBSET (1 .. n) |-> g[s]]
  OBVIOUS
<1> HIDE DEF g
<1>3. Loop(components, n, g)
  BY <1>1, <1>2 DEF Loop
<1> QED
  BY <1>3

(* There is a loop over any number of components.                          *)
LEMMA LoopEnds ==
  ASSUME NEW components, NEW n \in Nat
  PROVE  \E h : Loop(components, n, h)
<1> DEFINE T == {k \in Nat : ~\E h : Loop(components, k, h)}
<1> SUFFICES ASSUME T # {} PROVE FALSE
  OBVIOUS
<1>1. PICK k \in T : \A m \in T : k <= m
  BY LeastNatural
<1>2. CASE k = 0
  <2> DEFINE h == [s \in SUBSET (1 .. 0) |-> NoComponents]
  <2>1. Loop(components, 0, h)
    BY DEF Loop
  <2> QED
    BY <1>1, <1>2, <2>1
<1>3. CASE k # 0
  <2>1. k - 1 \in Nat /\ k - 1 \notin T
    BY <1>1, <1>3
  <2>2. PICK h : Loop(components, k - 1, h)
    BY <2>1
  <2> QED
    BY <1>1, <1>3, <2>2, LoopGrows
<1> QED
  BY <1>2, <1>3

(* What from_view's loop over the components has met after each of them.   *)
LEMMA LoopSteps ==
  ASSUME NEW components, NEW n \in Nat, DOMAIN components = 1 .. n
  PROVE  \E after : /\ after[0] = NoComponents
                    /\ \A k \in 1 .. n : after[k] = Insert(after[k - 1], components[k])
                    /\ FoldLeft(Insert, NoComponents, components) = after[n]
<1> DEFINE h == CHOOSE g : g = [s \in SUBSET DOMAIN components |->
                  IF s = {} THEN NoComponents
                            ELSE Insert(g[s \ {Max(s)}], components[Max(s)])]
<1>1. FoldLeft(Insert, NoComponents, components) = h[DOMAIN components]
  BY DEF FoldLeft, MapThenFoldSet
<1>2. Loop(components, n, h)
  <2>1. \E g : g = [s \in SUBSET DOMAIN components |->
                  IF s = {} THEN NoComponents
                            ELSE Insert(g[s \ {Max(s)}], components[Max(s)])]
    <3>1. PICK g : Loop(components, n, g)
      BY LoopEnds
    <3>2. g = [s \in SUBSET DOMAIN components |->
                IF s = {} THEN NoComponents ELSE Insert(g[s \ {Max(s)}], components[Max(s)])]
      BY <3>1 DEF Loop
    <3> QED
      BY <3>2
  <2>2. h = [s \in SUBSET DOMAIN components |->
              IF s = {} THEN NoComponents ELSE Insert(h[s \ {Max(s)}], components[Max(s)])]
    BY <2>1, Zenon
  <2> HIDE DEF h
  <2> QED
    BY <2>2 DEF Loop
<1> HIDE DEF h
<1> DEFINE after == [k \in 0 .. n |-> h[1 .. k]]
<1>3. after[0] = NoComponents
  BY <1>2 DEF Loop
<1>4. ASSUME NEW k \in 1 .. n PROVE after[k] = Insert(after[k - 1], components[k])
  <2> DEFINE upto == 1 .. k
  <2>1. /\ k \in Nat /\ upto \in SUBSET (1 .. n) /\ k \in upto
        /\ k \in 0 .. n /\ k - 1 \in 0 .. n
    OBVIOUS
  <2>2. upto \ {k} = 1 .. k - 1
    OBVIOUS
  <2> HIDE DEF upto
  <2>3. Max(upto) = k
    <3>1. upto \in SUBSET (1 .. k)
      BY DEF upto
    <3> QED
      BY <2>1, <3>1, LastPosition
  <2>4. h[upto] = Insert(h[upto \ {Max(upto)}], components[Max(upto)])
    BY <1>2, <2>1 DEF Loop
  <2>5. after[k] = h[upto] /\ after[k - 1] = h[1 .. k - 1]
    BY <2>1 DEF upto
  <2> HIDE DEF after
  <2> QED
    BY <2>2, <2>3, <2>4, <2>5
<1>5. after[n] = h[DOMAIN components]
  OBVIOUS
<1> QED
  BY <1>1, <1>3, <1>4, <1>5

(* What the first n components have to be: each parses, and no two share a *)
(* name, a resource or a schema.                                           *)
Acceptable(components, n) ==
  /\ \A i \in 1 .. n : Parses(components[i])
  /\ \A i, j \in 1 .. n : i # j =>
       LET x == components[i].spec
           y == components[j].spec
       IN  /\ x.name # y.name
           /\ x.context.resource # y.context.resource
           /\ x.context.schema # y.context.schema

(* What the loop carries after n components: all of it, or a refusal.      *)
Fields == {"ok", "names", "resources", "schemas", "targets", "specs"}
Shaped(a) == a = [f \in Fields |-> a[f]]

Carries(a, components, n) ==
  /\ Shaped(a)
  /\ a.ok \in BOOLEAN
  /\ a.ok <=> Acceptable(components, n)
  /\ a.ok => /\ a.names = {components[i].spec.name : i \in 1 .. n}
             /\ a.resources = {components[i].spec.context.resource : i \in 1 .. n}
             /\ a.schemas = {components[i].spec.context.schema : i \in 1 .. n}
             /\ a.targets \subseteq {Configured}
             /\ a.specs = {components[i].spec : i \in 1 .. n}

(* One step of the loop: the checks against what was met before are the    *)
(* checks against every earlier component; that a spec or another target   *)
(* comes twice is refused already by its name and by the boundary.         *)
LEMMA InsertCarries ==
  ASSUME NEW components, NEW n \in Nat, n # 0, NEW a, Carries(a, components, n - 1)
  PROVE  Carries(Insert(a, components[n]), components, n)
<1> DEFINE component == components[n]
           spec == component.spec
           New == /\ a.ok
                  /\ Parses(component)
                  /\ spec.name \notin a.names
                  /\ spec.context.resource \notin a.resources
                  /\ spec.context.schema \notin a.schemas
           b == Insert(a, component)
<1>0. n \in 1 .. n /\ \A i : i \in 1 .. n <=> i \in 1 .. n - 1 \/ i = n
  OBVIOUS
<1>1. New <=> Acceptable(components, n)
  <2>1. ASSUME New PROVE Acceptable(components, n)
    <3>1. ASSUME NEW i \in 1 .. n - 1
          PROVE  /\ components[i].spec.name \in a.names
                 /\ components[i].spec.context.resource \in a.resources
                 /\ components[i].spec.context.schema \in a.schemas
      BY <2>1 DEF Carries
    <3>2. Acceptable(components, n - 1)
      BY <2>1 DEF Carries
    <3> QED
      BY <1>0, <2>1, <3>1, <3>2 DEF Acceptable
  <2>2. ASSUME Acceptable(components, n) PROVE New
    <3>1. \A i \in 1 .. n - 1 : i \in 1 .. n /\ i # n
      OBVIOUS
    <3>2. Acceptable(components, n - 1)
      BY <2>2, <3>1 DEF Acceptable
    <3> QED
      BY <1>0, <2>2, <3>1, <3>2 DEF Acceptable, Carries
  <2> QED
    BY <2>1, <2>2
<1>2. CASE New
  <2>1. spec.context.target = Configured
    BY <1>2 DEF Parses, BoundaryHolds
  <2>2. spec \notin a.specs
    BY <1>2 DEF Carries
  <2>3. b = Met(a, spec)
    BY <1>2, <2>1, <2>2 DEF Insert, Carries
  <2> HIDE DEF b, spec, component, New
  <2>4. /\ Shaped(b)
        /\ b.ok = a.ok
        /\ b.names = a.names \cup {spec.name}
        /\ b.resources = a.resources \cup {spec.context.resource}
        /\ b.schemas = a.schemas \cup {spec.context.schema}
        /\ b.targets = a.targets \cup {spec.context.target}
        /\ b.specs = a.specs \cup {spec}
    <3>1. Shaped(a)
      BY DEF Carries
    <3> QED
      BY <2>3, <3>1 DEF Met, Shaped, Fields
  <2>5. a.ok /\ Acceptable(components, n)
    BY <1>1, <1>2 DEF New
  <2>6. /\ b.names = {components[i].spec.name : i \in 1 .. n}
        /\ b.resources = {components[i].spec.context.resource : i \in 1 .. n}
        /\ b.schemas = {components[i].spec.context.schema : i \in 1 .. n}
        /\ b.specs = {components[i].spec : i \in 1 .. n}
    <3>1. /\ a.names = {components[i].spec.name : i \in 1 .. n - 1}
          /\ a.resources = {components[i].spec.context.resource : i \in 1 .. n - 1}
          /\ a.schemas = {components[i].spec.context.schema : i \in 1 .. n - 1}
          /\ a.specs = {components[i].spec : i \in 1 .. n - 1}
      BY <2>5 DEF Carries
    <3>2. b.names = {components[i].spec.name : i \in 1 .. n}
      BY <1>0, <2>4, <3>1 DEF spec, component
    <3>3. b.resources = {components[i].spec.context.resource : i \in 1 .. n}
      BY <1>0, <2>4, <3>1 DEF spec, component
    <3>4. b.schemas = {components[i].spec.context.schema : i \in 1 .. n}
      BY <1>0, <2>4, <3>1 DEF spec, component
    <3>5. b.specs = {components[i].spec : i \in 1 .. n}
      BY <1>0, <2>4, <3>1 DEF spec, component
    <3> QED
      BY <3>2, <3>3, <3>4, <3>5
  <2>7. b.targets \subseteq {Configured}
    BY <2>1, <2>4, <2>5 DEF Carries
  <2> QED
    BY <2>4, <2>5, <2>6, <2>7 DEF Carries, b, component
<1>3. CASE ~New
  <2>1. b = Rejected(a)
    BY <1>3 DEF Insert
  <2>2. Shaped(Rejected(a)) /\ Rejected(a).ok = FALSE
    BY DEF Rejected, Carries, Shaped, Fields
  <2> HIDE DEF New
  <2> QED
    BY <1>1, <1>3, <2>1, <2>2 DEF Carries
<1> QED
  BY <1>2, <1>3

(* from_view's loop over the components accepts exactly the components     *)
(* that are sound and distinct, and keeps the spec of every one of them:   *)
(* however many there are and whatever order they come in.                 *)
THEOREM ComponentsAccepted ==
  ASSUME NEW components, NEW n \in Nat, DOMAIN components = 1 .. n
  PROVE  LET a == FoldLeft(Insert, NoComponents, components) IN
         /\ a.ok <=> Acceptable(components, n)
         /\ a.ok => a.specs = {components[i].spec : i \in 1 .. n}
<1>1. PICK after : /\ after[0] = NoComponents
                   /\ \A k \in 1 .. n : after[k] = Insert(after[k - 1], components[k])
                   /\ FoldLeft(Insert, NoComponents, components) = after[n]
  BY LoopSteps
<1> DEFINE T == {k \in 0 .. n : ~Carries(after[k], components, k)}
<1>2. T = {}
  <2> SUFFICES ASSUME T # {} PROVE FALSE
    OBVIOUS
  <2>1. T \subseteq Nat
    OBVIOUS
  <2>2. PICK k \in T : \A m \in T : k <= m
    BY <2>1, LeastNatural
  <2>3. CASE k = 0
    <3>1. /\ Shaped(NoComponents)
          /\ NoComponents.ok = TRUE /\ NoComponents.names = {} /\ NoComponents.resources = {}
          /\ NoComponents.schemas = {} /\ NoComponents.targets = {} /\ NoComponents.specs = {}
      BY DEF NoComponents, Shaped, Fields
    <3>2. 1 .. 0 = {}
      OBVIOUS
    <3>3. Acceptable(components, 0)
      BY <3>2 DEF Acceptable
    <3>4. Carries(NoComponents, components, 0)
      BY <3>1, <3>2, <3>3 DEF Carries
    <3> QED
      BY <1>1, <2>2, <2>3, <3>4
  <2>4. CASE k # 0
    <3>1. k \in 1 .. n /\ k - 1 \in 0 .. n /\ k - 1 \notin T
      BY <2>2, <2>4
    <3>2. /\ Carries(after[k - 1], components, k - 1)
          /\ after[k] = Insert(after[k - 1], components[k])
      BY <1>1, <3>1
    <3> QED
      BY <2>2, <2>4, <3>1, <3>2, InsertCarries
  <2> QED
    BY <2>3, <2>4
<1>3. Carries(after[n], components, n)
  BY <1>2
<1> QED
  BY <1>1, <1>3 DEF Carries

(* What the planner takes for granted of the specs of a slice.             *)
Valid(specs) ==
  \A x, y \in specs :
    /\ x # y => /\ x.name # y.name
                /\ x.context.resource # y.context.resource
                /\ x.context.schema # y.context.schema
    /\ x.context.target = y.context.target
    /\ x.context.schema \notin Reserved

(* A slice that from_view accepts is valid.                                *)
LEMMA AcceptedIsValid ==
  ASSUME NEW slice \in Slices
  PROVE  Valid(slice.specs)
<1>1. PICK r \in Requests : slice = FromView(r) /\ slice # None
  BY DEF Slices
<1> DEFINE a == FoldLeft(Insert, NoComponents, r.components)
<1>2. a.ok /\ slice.specs = a.specs
  BY <1>1, Zenon DEF FromView
<1>3. PICK n \in Nat : DOMAIN r.components = 1 .. n
  BY RequestsAreTyped
<1>4. Acceptable(r.components, n) /\ slice.specs = {r.components[i].spec : i \in 1 .. n}
  BY <1>2, <1>3, ComponentsAccepted
<1> QED
  BY <1>4 DEF Valid, Acceptable, Parses, BoundaryHolds

(* The slice in memory is valid whatever requests came in, and under the   *)
(* retained sequence it is the retained level, also after a restart, when  *)
(* resume has fetched it from core again.                                  *)
THEOREM DesiredCorrect == Spec => []DesiredIsValid
<1>1. Inv => DesiredIsValid
  <2> SUFFICES ASSUME Inv, NEW g \in Graphs, desired[g] # None
               PROVE  /\ Valid(desired[g].specs)
                      /\ Retained(g) # None /\ Retained(g).sequence = desired[g].sequence =>
                           Retained(g).digest = DigestOf(desired[g])
    BY DEF DesiredIsValid, Valid
  <2>1. PICK slice, c : slice = desired[g] /\ c = Retained(g)
    OBVIOUS
  <2>2. /\ slice \in Slices /\ c \in Checkpoints
        /\ slice.sequence = c.sequence => PlanFor(slice) = Identity(c)
    BY <2>1 DEF Inv, DesiredOK, FilesOK, CheckpointsOf
  <2>3. slice.sequence = c.sequence => c.digest = DigestOf(slice)
    BY <2>2, SlicesAreDescribed, CheckpointShape
  <2> QED
    BY <2>1, <2>2, <2>3, AcceptedIsValid
<1> QED
  BY <1>1, Invariance, PTL
=============================================================================
