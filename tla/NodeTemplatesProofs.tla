------------------------ MODULE NodeTemplatesProofs -------------------------
(***************************************************************************)
(* Proofs about NodeTemplates, for any templates and any number of         *)
(* requests in parallel: what a transaction has read stays as it is unless *)
(* another one commits, those that commit write at most one default each,  *)
(* and a second default or a lost one has two requests behind it that      *)
(* overlapped.                                                             *)
(***************************************************************************)
EXTENDS NodeTemplates, FiniteSetTheorems, TLAPS

-----------------------------------------------------------------------------
\* The requests and the steps they take
TemplateRequests ==
    [kind : {"none", "create", "update", "delete", "set_default"},
     id : Templates \cup {None}, new : Flags \cup {Keep}, loaded : Flags \cup {Keep},
     other : Templates \cup {None}, visible : SUBSET Templates]

TemplateSteps ==
    {"idle", "clear", "clearing", "own", "commit", "count", "refuse", "other",
     "promote", "delete"}

TemplateTypes ==
    /\ flag \in [Templates -> Flags \cup {"none"}]
    /\ holder \in [Templates -> Workers \cup {None}]
    /\ writes \in [Workers -> [Templates -> Flags \cup {"none", "same"}]]
    /\ step \in [Workers -> TemplateSteps] /\ req \in [Workers -> TemplateRequests]

\* The rows a request has named or seen
Named(r) == {r.id, r.other} \cup r.visible

\* A transaction locks only rows that it has named, and writes only rows that
\* it has locked and that are there, unless it is about to insert them.
WritesAreLocked(w) ==
    \A t \in Templates :
      /\ holder[t] = w => t \in Named(req[w])
      /\ writes[w][t] # "same" => holder[t] = w
      /\ writes[w][t] \in Flags =>
           t \in Rows \/ (req[w].kind = "create" /\ t = req[w].id)

\* Nobody else knows the row that a request is about to insert.
NewIsUnknown(w) ==
    req[w].kind = "create" =>
      flag[req[w].id] = "none" /\ \A v \in Workers \ {w} : req[w].id \notin Named(req[v])

\* What the transaction of a worker has written: nothing, only cleared rows,
Untouched(w) == \A t \in Templates : writes[w][t] = "same" /\ holder[t] # w

OnlyClears(w) == \A t \in Templates : writes[w][t] \in {"same", "N"}

\* all the rows of the user that the statement saw, where the template is to be
\* the default, and nothing otherwise, but for those in "own".
HasCleared(w, own) ==
    LET r == req[w]
    IN /\ \A t \in Templates \ own : writes[w][t] \in {"same", "N"}
       /\ r.new = "Y" => \A t \in (r.visible \cap Rows) \ own : writes[w][t] = "N"
       /\ r.new # "Y" => \A t \in Templates \ own : writes[w][t] = "same"

\* A request that saves a template, in its four kinds
Saves(w) ==
    LET r == req[w]
    IN /\ r.kind \in {"create", "update", "set_default"} /\ r.id \in Templates
       /\ r.kind = "update" => r.loaded \in Flags
       /\ r.kind = "create" => r.new \in Flags
       /\ r.kind # "update" => r.loaded = Keep
       /\ r.kind = "set_default" => r.new = "Y"

\* A request that deletes one, when it has counted: it saw another template, or
\* the own one was gone.
HasCounted(w) ==
    LET r == req[w]
    IN /\ r.kind = "delete" /\ r.id \in Templates
       /\ r.visible # {r.id} /\ (r.id \in r.visible \/ r.id \notin Rows)

\* It has promoted at most one, in the place of a default.
HasPromoted(w, own) ==
    \A t \in Templates \ own : writes[w][t] # "same" =>
      writes[w][t] = "Y" /\ req[w].loaded = "Y" /\ t = req[w].other

\* Where each step finds its transaction
Progress(w) ==
    LET s == step[w]
        r == req[w]
    IN /\ s = "idle" => r.kind = "none" /\ Untouched(w)
       /\ s = "clear" => Saves(w) /\ r.new = "Y" /\ Untouched(w)
       /\ s = "clearing" =>
            /\ Saves(w) /\ r.new = "Y" /\ OnlyClears(w)
            /\ \A t \in Templates : holder[t] = w => writes[w][t] = "N"
       /\ s = "own" => Saves(w) /\ HasCleared(w, {})
       /\ s = "commit" =>
            \/ /\ Saves(w) /\ HasCleared(w, {r.id}) /\ holder[r.id] = w
               /\ writes[w][r.id] = Column(r) /\ (r.kind = "create" \/ r.id \in Rows)
            \/ /\ HasCounted(w) /\ HasPromoted(w, {r.id})
               /\ writes[w][r.id] = "none" /\ r.loaded \in Flags
       /\ s \in {"count", "refuse"} =>
            r.kind = "delete" /\ r.id \in Templates /\ r.loaded \in Flags /\ Untouched(w)
       /\ s = "other" => HasCounted(w) /\ r.loaded = "Y" /\ Untouched(w)
       /\ s = "promote" =>
            HasCounted(w) /\ r.loaded = "Y" /\ r.other # r.id /\ Untouched(w)
       /\ s = "delete" => HasCounted(w) /\ r.loaded \in Flags /\ HasPromoted(w, {})

\* The inductive invariant
TemplateInv ==
    /\ TemplateTypes
    /\ \A w \in Workers : WritesAreLocked(w) /\ NewIsUnknown(w) /\ Progress(w)

-----------------------------------------------------------------------------
\* A set of at most one element, by its elements
LEMMA AtMostOne ==
    ASSUME NEW S, IsFiniteSet(S)
    PROVE  Cardinality(S) <= 1 <=> \A x, y \in S : x = y
<1>1. ASSUME Cardinality(S) <= 1, NEW x \in S, NEW y \in S, x # y
      PROVE  FALSE
  <2>1. IsFiniteSet(S \ {x}) /\ Cardinality(S \ {x}) = Cardinality(S) - 1
    BY FS_RemoveElement
  <2>2. Cardinality(S) \in Nat /\ Cardinality(S \ {x}) \in Nat
    BY <2>1, FS_CardinalityType
  <2>3. Cardinality(S \ {x}) = 0
    BY <1>1, <2>1, <2>2
  <2>4. S \ {x} = {}
    BY <2>1, <2>3, FS_EmptySet
  <2> QED BY <1>1, <2>4
<1>2. ASSUME \A x, y \in S : x = y
      PROVE  Cardinality(S) <= 1
  <2>1. CASE S = {}
    BY <2>1, FS_EmptySet
  <2>2. CASE S # {}
    <3>1. PICK x \in S : S = {x}
      BY <1>2, <2>2
    <3> QED BY <3>1, FS_Singleton
  <2> QED BY <2>1, <2>2
<1> QED BY <1>1, <1>2

\* Nothing is under way.
LEMMA TemplateInitial == Init => TemplateInv
<1> SUFFICES ASSUME Init PROVE TemplateInv
  OBVIOUS
<1>1. Idle \in TemplateRequests
  BY DEF Idle, TemplateRequests, Flags, Keep
<1>2. NoWrites \in [Templates -> Flags \cup {"none", "same"}]
  BY DEF NoWrites
<1>3. TemplateTypes
  BY <1>1, <1>2 DEF Init, TemplateTypes, TemplateSteps
<1>4. ASSUME NEW w \in Workers
      PROVE  WritesAreLocked(w) /\ NewIsUnknown(w) /\ Progress(w)
  <2>1. step[w] = "idle" /\ req[w].kind = "none" /\ writes[w] = NoWrites
    BY DEF Init, Idle
  <2>2. Untouched(w)
    BY <2>1, NoneAssumption DEF Init, NoWrites, Untouched
  <2> QED BY <2>1, <2>2 DEF WritesAreLocked, NewIsUnknown, Progress, Untouched, Flags
<1> QED BY <1>3, <1>4 DEF TemplateInv

-----------------------------------------------------------------------------
\* What a worker keeps while another one takes a step: its request, its locks
\* and what it has written; no row it knows appears, and no row it has locked
\* changes.
LEMMA OthersProgress ==
    ASSUME TemplateInv, TemplateTypes', NEW w \in Workers,
           step'[w] = step[w], req'[w] = req[w], writes'[w] = writes[w],
           \A t \in Templates : holder'[t] = w <=> holder[t] = w,
           \A t \in Templates : holder[t] = w => flag'[t] = flag[t],
           \A t \in Templates : t \in Named(req[w]) /\ flag[t] = "none" => flag'[t] = "none"
    PROVE  WritesAreLocked(w)' /\ Progress(w)'
<1> DEFINE r == req[w]
<1>1. WritesAreLocked(w) /\ Progress(w) /\ r \in TemplateRequests
  BY DEF TemplateInv, TemplateTypes
<1>2. r.visible \subseteq Templates
  BY <1>1 DEF TemplateRequests
<1>3. \A t \in Templates : holder[t] = w => (t \in Rows <=> t \in Rows')
  BY DEF Rows
<1>4. \A t \in Templates : t \in Named(r) /\ t \in Rows' => t \in Rows
  BY DEF Rows
<1>5. WritesAreLocked(w)'
  <2> SUFFICES ASSUME NEW t \in Templates
               PROVE  /\ holder'[t] = w => t \in Named(req'[w])
                      /\ writes'[w][t] # "same" => holder'[t] = w
                      /\ writes'[w][t] \in Flags =>
                           t \in Rows' \/ (req'[w].kind = "create" /\ t = req'[w].id)
    BY DEF WritesAreLocked
  <2>1. /\ holder[t] = w => t \in Named(req[w])
        /\ writes[w][t] # "same" => holder[t] = w
        /\ writes[w][t] \in Flags =>
             t \in Rows \/ (req[w].kind = "create" /\ t = req[w].id)
    BY <1>1 DEF WritesAreLocked
  <2> QED BY <1>3, <2>1 DEF Flags
<1>6. /\ Untouched(w) => Untouched(w)'
      /\ OnlyClears(w) => OnlyClears(w)'
      /\ Saves(w) => Saves(w)'
  BY DEF Untouched, OnlyClears, Saves
<1>7. HasCounted(w) => HasCounted(w)'
  BY <1>4 DEF HasCounted, Named
<1>8. ASSUME NEW own PROVE HasCleared(w, own) => HasCleared(w, own)'
  BY <1>2, <1>4 DEF HasCleared, Named
<1>9. ASSUME NEW own PROVE HasPromoted(w, own) => HasPromoted(w, own)'
  BY DEF HasPromoted
<1>10. HasCleared(w, {}) => HasCleared(w, {})'
  BY <1>8
<1>11. HasCleared(w, {r.id}) => HasCleared(w, {r.id})'
  BY <1>8
<1>12. /\ HasPromoted(w, {}) => HasPromoted(w, {})'
       /\ HasPromoted(w, {r.id}) => HasPromoted(w, {r.id})'
  BY <1>9
<1>13. Progress(w)'
  BY <1>1, <1>3, <1>6, <1>7, <1>10, <1>11, <1>12 DEF Progress, Saves
<1> QED BY <1>5, <1>13

\* A step of one worker that commits nothing
LEMMA WorkerStep ==
    ASSUME TemplateInv, NEW w \in Workers, NEW s \in TemplateSteps, NEW r \in TemplateRequests,
           Goto(w, s, r), flag' = flag,
           holder' \in [Templates -> Workers \cup {None}],
           writes' \in [Workers -> [Templates -> Flags \cup {"none", "same"}]],
           \A v \in Workers \ {w} :
             /\ writes'[v] = writes[v]
             /\ \A t \in Templates : holder'[t] = v <=> holder[t] = v
             /\ req[v].kind = "create" => req[v].id \notin Named(r),
           WritesAreLocked(w)', Progress(w)',
           r.kind = "create" =>
             /\ flag[r.id] = "none"
             /\ \A v \in Workers \ {w} : r.id \notin Named(req[v])
    PROVE  TemplateInv'
<1>1. TemplateTypes'
  BY DEF TemplateInv, TemplateTypes, Goto
<1>2. \A v \in Workers : step'[v] = (IF v = w THEN s ELSE step[v])
                          /\ req'[v] = (IF v = w THEN r ELSE req[v])
  BY DEF TemplateInv, TemplateTypes, Goto
<1>3. ASSUME NEW v \in Workers \ {w} PROVE WritesAreLocked(v)' /\ Progress(v)'
  BY <1>1, <1>2, <1>3, OthersProgress
<1>4. ASSUME NEW v \in Workers PROVE NewIsUnknown(v)'
  <2>1. CASE v = w
    BY <1>2, <2>1 DEF NewIsUnknown
  <2>2. CASE v # w
    <3>1. NewIsUnknown(v)
      BY DEF TemplateInv
    <3> QED BY <1>2, <2>2, <3>1 DEF NewIsUnknown
  <2> QED BY <2>1, <2>2
<1> QED BY <1>1, <1>3, <1>4 DEF TemplateInv

\* A query that locks nothing
LEMMA ReadStep ==
    ASSUME TemplateInv, NEW w \in Workers, NEW s \in TemplateSteps, NEW r \in TemplateRequests,
           Read(w, s, r), Progress(w)',
           \A t \in Templates : holder[t] = w => t \in Named(r),
           (req[w].kind = r.kind /\ req[w].id = r.id) \/ Untouched(w),
           \A v \in Workers \ {w} : req[v].kind = "create" => req[v].id \notin Named(r),
           r.kind = "create" =>
             /\ flag[r.id] = "none"
             /\ \A v \in Workers \ {w} : r.id \notin Named(req[v])
    PROVE  TemplateInv'
<1>1. UNCHANGED <<flag, holder, writes>> /\ Goto(w, s, r) /\ req'[w] = r
  BY DEF Read, Goto, TemplateInv, TemplateTypes
<1>2. WritesAreLocked(w)'
  BY <1>1 DEF TemplateInv, WritesAreLocked, Rows, Untouched, Flags, Named
<1> QED BY <1>1, <1>2, WorkerStep DEF TemplateInv, TemplateTypes

\* A statement or a flush that locks a row and writes it
LEMMA WriteStep ==
    ASSUME TemplateInv, NEW w \in Workers, NEW s \in TemplateSteps, NEW t \in Templates,
           NEW value \in Flags \cup {"none", "same"}, Goto(w, s, req[w]), Write(w, t, value),
           Free(w, t), t \in Named(req[w]), Progress(w)',
           value \in Flags => t \in Rows \/ (req[w].kind = "create" /\ t = req[w].id)
    PROVE  TemplateInv'
<1>1. /\ flag' = flag /\ req[w] \in TemplateRequests /\ req'[w] = req[w]
      /\ holder' \in [Templates -> Workers \cup {None}]
      /\ writes' \in [Workers -> [Templates -> Flags \cup {"none", "same"}]]
      /\ \A x \in Templates : holder'[x] = IF x = t THEN w ELSE holder[x]
      /\ \A x \in Templates : writes'[w][x] = IF x = t THEN value ELSE writes[w][x]
      /\ \A v \in Workers \ {w} : writes'[v] = writes[v]
  BY DEF Write, Goto, TemplateInv, TemplateTypes
<1>2. WritesAreLocked(w)'
  BY <1>1 DEF TemplateInv, WritesAreLocked, Rows
<1>3. \A v \in Workers \ {w} : \A x \in Templates : holder'[x] = v <=> holder[x] = v
  BY <1>1, NoneAssumption DEF Free
<1>4. \A v \in Workers : NewIsUnknown(v)
  BY DEF TemplateInv
<1>5. \A v \in Workers \ {w} : req[v].kind = "create" => req[v].id \notin Named(req[w])
  BY <1>4 DEF NewIsUnknown
<1>6. req[w].kind = "create" =>
        /\ flag[req[w].id] = "none"
        /\ \A v \in Workers \ {w} : req[w].id \notin Named(req[v])
  BY <1>4 DEF NewIsUnknown
<1> QED BY <1>1, <1>2, <1>3, <1>5, <1>6, WorkerStep

\* A request that fails, or is refused, releases its locks.
LEMMA RollbackStep ==
    ASSUME TemplateInv, NEW w \in Workers, Rollback(w)
    PROVE  TemplateInv'
<1>1. /\ flag' = flag /\ Goto(w, "idle", Idle) /\ Idle \in TemplateRequests
      /\ Idle.kind = "none" /\ Named(Idle) = {None}
  BY DEF Rollback, Idle, TemplateRequests, Flags, Keep, Named
<1>2. /\ holder' \in [Templates -> Workers \cup {None}]
      /\ writes' \in [Workers -> [Templates -> Flags \cup {"none", "same"}]]
      /\ \A x \in Templates : holder'[x] = IF holder[x] = w THEN None ELSE holder[x]
      /\ \A x \in Templates : writes'[w][x] = "same"
      /\ \A v \in Workers \ {w} : writes'[v] = writes[v]
  BY DEF Rollback, Release, NoWrites, TemplateInv, TemplateTypes
<1>3. WritesAreLocked(w)' /\ Untouched(w)'
  BY <1>2, NoneAssumption DEF WritesAreLocked, Untouched, Flags
<1>4. step'[w] = "idle" /\ req'[w].kind = "none"
  BY <1>1 DEF Goto, TemplateInv, TemplateTypes
<1>5. Progress(w)'
  BY <1>3, <1>4 DEF Progress
<1>6. \A v \in Workers \ {w} : \A x \in Templates : holder'[x] = v <=> holder[x] = v
  BY <1>2, NoneAssumption
<1>7. \A v \in Workers : req[v].kind = "create" => req[v].id \in Templates
  BY DEF TemplateInv, Progress, Saves, HasCounted, TemplateTypes, TemplateSteps
<1>8. \A v \in Workers \ {w} : req[v].kind = "create" => req[v].id \notin Named(Idle)
  BY <1>1, <1>7, NoneAssumption
<1> QED BY <1>1, <1>2, <1>3, <1>5, <1>6, <1>8, WorkerStep DEF TemplateSteps

\* What a commit does to the rows, by what Progress says of the transaction
LEMMA CommitWrites ==
    ASSUME TemplateInv, NEW w \in Workers, Commit(w)
    PROVE  /\ \A t \in Templates :
                flag'[t] = IF writes[w][t] # "same" THEN writes[w][t] ELSE flag[t]
           /\ req[w].id \in Templates /\ req[w].visible \subseteq Templates
           /\ \/ /\ Saves(w) /\ HasCleared(w, {req[w].id}) /\ holder[req[w].id] = w
                 /\ writes[w][req[w].id] = Column(req[w])
                 /\ req[w].kind = "create" \/ req[w].id \in Rows
              \/ /\ HasCounted(w) /\ HasPromoted(w, {req[w].id})
                 /\ writes[w][req[w].id] = "none" /\ req[w].loaded \in Flags
<1>1. Progress(w) /\ step[w] = "commit"
  BY DEF TemplateInv, Commit
<1>2. req[w] \in TemplateRequests
  BY DEF TemplateInv, TemplateTypes
<1> QED BY <1>1, <1>2 DEF Commit, Progress, Saves, HasCounted, TemplateRequests

\* What a transaction has written appears, and its locks are released.
LEMMA CommitStep ==
    ASSUME TemplateInv, NEW w \in Workers, Commit(w)
    PROVE  TemplateInv'
<1>1. \A t \in Templates :
        flag'[t] = IF writes[w][t] # "same" THEN writes[w][t] ELSE flag[t]
  BY CommitWrites
<1>2. Goto(w, "idle", Idle) /\ Idle \in TemplateRequests /\ Idle.kind = "none" /\ Named(Idle) = {None}
  BY DEF Commit, Idle, TemplateRequests, Flags, Keep, Named
<1>3. /\ holder' \in [Templates -> Workers \cup {None}]
      /\ writes' \in [Workers -> [Templates -> Flags \cup {"none", "same"}]]
      /\ \A x \in Templates : holder'[x] = IF holder[x] = w THEN None ELSE holder[x]
      /\ \A x \in Templates : writes'[w][x] = "same"
      /\ \A v \in Workers \ {w} : writes'[v] = writes[v]
  BY DEF Commit, Release, NoWrites, TemplateInv, TemplateTypes
<1>4. TemplateTypes'
  <2>1. flag' \in [Templates -> Flags \cup {"none"}]
    BY DEF Commit, TemplateInv, TemplateTypes
  <2> QED BY <1>2, <1>3, <2>1 DEF TemplateInv, TemplateTypes, Goto, TemplateSteps
<1>5. \A v \in Workers : /\ step'[v] = (IF v = w THEN "idle" ELSE step[v])
                         /\ req'[v] = (IF v = w THEN Idle ELSE req[v])
  BY <1>2 DEF TemplateInv, TemplateTypes, Goto
<1>6. WritesAreLocked(w)' /\ Progress(w)' /\ NewIsUnknown(w)'
  <2>1. WritesAreLocked(w)' /\ Untouched(w)'
    BY <1>3, NoneAssumption DEF WritesAreLocked, Untouched, Flags
  <2> QED BY <1>2, <1>5, <2>1 DEF Progress, NewIsUnknown
<1>7. ASSUME NEW v \in Workers \ {w}
      PROVE  WritesAreLocked(v)' /\ Progress(v)' /\ NewIsUnknown(v)'
  <2>1. WritesAreLocked(w) /\ NewIsUnknown(w) /\ NewIsUnknown(v)
    BY DEF TemplateInv
  <2>2. \A t \in Templates : holder'[t] = v <=> holder[t] = v
    BY <1>3, NoneAssumption
  <2>3. \A t \in Templates : holder[t] = v => flag'[t] = flag[t]
    BY <1>1, <2>1 DEF WritesAreLocked
  <2>4. ASSUME NEW t \in Templates, t \in Named(req[v]), flag[t] = "none"
        PROVE  flag'[t] = "none"
    <3>1. writes[w][t] \notin Flags
      <4>1. t \notin Rows
        BY <2>4 DEF Rows
      <4>2. req[w].kind = "create" => t # req[w].id
        BY <2>1, <2>4 DEF NewIsUnknown
      <4> QED BY <2>1, <4>1, <4>2 DEF WritesAreLocked, Flags
    <3> QED BY <1>1, <2>4, <3>1 DEF TemplateInv, TemplateTypes
  <2>5. WritesAreLocked(v)' /\ Progress(v)'
    BY <1>3, <1>4, <1>5, <2>2, <2>3, <2>4, OthersProgress
  <2>6. ASSUME req[v].kind = "create" PROVE flag'[req[v].id] = "none"
    <3>1. req[v].id \in Templates
      BY <2>6 DEF TemplateInv, Progress, Saves, HasCounted, TemplateTypes, TemplateSteps
    <3>2. writes[w][req[v].id] = "same" /\ flag[req[v].id] = "none"
      BY <2>1, <2>6, <3>1 DEF WritesAreLocked, NewIsUnknown
    <3> QED BY <1>1, <3>1, <3>2
  <2>7. ASSUME req[v].kind = "create", NEW u \in Workers \ {v} PROVE req[v].id \notin Named(req'[u])
    <3>1. req[v].id \in Templates
      BY <2>7 DEF TemplateInv, Progress, Saves, HasCounted, TemplateTypes, TemplateSteps
    <3> QED BY <1>2, <1>5, <2>1, <2>7, <3>1, NoneAssumption DEF NewIsUnknown
  <2> QED BY <1>5, <2>5, <2>6, <2>7 DEF NewIsUnknown
<1> QED BY <1>4, <1>6, <1>7 DEF TemplateInv

-----------------------------------------------------------------------------
\* The first query of a request finds its row, or the key of a new one.
LEMMA RequestStep ==
    ASSUME TemplateInv, NEW w \in Workers, Request(w)
    PROVE  TemplateInv'
<1> DEFINE Begun(t, s, r) ==
             /\ step[w] = "idle" /\ Read(w, s, r) /\ r \in TemplateRequests
             /\ s \in TemplateSteps /\ Named(r) = {t, None}
             /\ \/ r.kind = "create" /\ Fresh(t)
                \/ r.kind # "create" /\ t \in Rows
             /\ r.id = t
             /\ \/ s = "clear" /\ r.new = "Y" /\ r.kind \in {"create", "update", "set_default"}
                \/ s = "own" /\ r.new # "Y" /\ r.kind \in {"create", "update"}
                \/ s = "count" /\ r.kind = "delete" /\ r.loaded \in Flags
             /\ r.kind = "update" => r.loaded \in Flags
             /\ r.kind = "create" => r.new \in Flags
             /\ r.kind \in {"create", "set_default"} => r.loaded = Keep
<1>1. \E t \in Templates : \E s, r : Begun(t, s, r)
  <2>1. \A t \in Rows : flag[t] \in Flags
    BY DEF Rows, TemplateInv, TemplateTypes
  <2>2. PICK t \in Templates :
          \/ \E new \in Flags : BeginCreate(w, t, new)
          \/ \E new \in Flags \cup {Keep} : BeginUpdate(w, t, new)
          \/ BeginDelete(w, t)
          \/ BeginSetDefault(w, t)
    BY DEF Request
  <2>3. ASSUME NEW new \in Flags, BeginCreate(w, t, new) PROVE \E s, r : Begun(t, s, r)
    <3>1. Begun(t, IF new = "Y" THEN "clear" ELSE "own",
                [Idle EXCEPT !.kind = "create", !.id = t, !.new = new])
      BY <2>3 DEF BeginCreate, Idle, TemplateRequests, TemplateSteps, Flags, Keep, Named
    <3> QED BY <3>1
  <2>4. ASSUME NEW new \in Flags \cup {Keep}, BeginUpdate(w, t, new)
        PROVE  \E s, r : Begun(t, s, r)
    <3>1. Begun(t, IF new = "Y" THEN "clear" ELSE "own",
                [Idle EXCEPT !.kind = "update", !.id = t, !.new = new, !.loaded = flag[t]])
      BY <2>1, <2>4 DEF BeginUpdate, Idle, TemplateRequests, TemplateSteps, Flags,
         Keep, Named
    <3> QED BY <3>1
  <2>5. ASSUME BeginDelete(w, t) PROVE \E s, r : Begun(t, s, r)
    <3>1. Begun(t, "count", [Idle EXCEPT !.kind = "delete", !.id = t,
    !.loaded = flag[t]])
      BY <2>1, <2>5 DEF BeginDelete, Idle, TemplateRequests, TemplateSteps, Flags,
         Keep, Named
    <3> QED BY <3>1
  <2>6. ASSUME BeginSetDefault(w, t) PROVE \E s, r : Begun(t, s, r)
    <3>1. Begun(t, "clear", [Idle EXCEPT !.kind = "set_default", !.id = t, !.new = "Y"])
      BY <2>6 DEF BeginSetDefault, Idle, TemplateRequests, TemplateSteps, Flags, Keep,
         Named
    <3> QED BY <3>1
  <2> QED BY <2>2, <2>3, <2>4, <2>5, <2>6
<1>0. PICK t \in Templates : \E s, r : Begun(t, s, r)
  BY <1>1
<1>2. PICK s, r : Begun(t, s, r)
  BY <1>0
<1>3. Untouched(w) /\ \A v \in Workers : NewIsUnknown(v) /\ None \notin Templates
  BY <1>2, NoneAssumption DEF TemplateInv, Progress
<1>4. /\ UNCHANGED <<flag, holder, writes>> /\ step'[w] = s /\ req'[w] = r /\ Untouched(w)'
  BY <1>2, <1>3 DEF Read, Goto, Untouched, TemplateInv, TemplateTypes
<1>5. Saves(w)' \/ r.kind = "delete"
  BY <1>2, <1>4 DEF Saves
<1>6. s = "own" => HasCleared(w, {})'
  BY <1>2, <1>4 DEF HasCleared, Untouched
<1>7. Progress(w)'
  BY <1>2, <1>4, <1>5, <1>6 DEF Progress
<1>8. ASSUME NEW v \in Workers \ {w}, req[v].kind = "create" PROVE req[v].id \notin Named(r)
  <2>1. req[v].id \in Templates
    BY <1>8 DEF TemplateInv, Progress, Saves, HasCounted, TemplateTypes, TemplateSteps
  <2>2. flag[req[v].id] = "none"
    BY <1>3, <1>8 DEF NewIsUnknown
  <2> QED BY <1>2, <1>3, <2>1, <2>2 DEF Fresh, Rows
<1>9. r.kind = "create" =>
        /\ flag[r.id] = "none"
        /\ \A v \in Workers \ {w} : r.id \notin Named(req[v])
  BY <1>2 DEF Fresh, Named
<1> HIDE DEF Begun
<1>10. Read(w, s, r) /\ r \in TemplateRequests /\ s \in TemplateSteps
  BY <1>2 DEF Begun
<1> QED BY <1>3, <1>7, <1>8, <1>9, <1>10, ReadStep DEF Untouched

\* The statement that clears takes the rows it sees.
LEMMA StartClearKept ==
    ASSUME TemplateInv, NEW w \in Workers, StartClear(w)
    PROVE  TemplateInv'
<1>1. PICK r \in TemplateRequests : r = [req[w] EXCEPT !.visible = Cleared(w)]
  <2>1. Cleared(w) \subseteq Templates
    BY DEF Cleared, Rows
  <2> QED BY <2>1 DEF TemplateInv, TemplateTypes, TemplateRequests
<1>2. /\ r.kind = req[w].kind /\ r.id = req[w].id /\ r.new = req[w].new
      /\ r.loaded = req[w].loaded /\ r.other = req[w].other /\ r.visible = Cleared(w)
  BY <1>1 DEF TemplateInv, TemplateTypes, TemplateRequests
<1>3. Saves(w) /\ req[w].new = "Y" /\ Untouched(w) /\ Read(w, "clearing", r)
  BY <1>1 DEF StartClear, TemplateInv, Progress
<1>4. /\ UNCHANGED <<flag, holder, writes>> /\ step'[w] = "clearing" /\ req'[w] = r
      /\ OnlyClears(w)' /\ Untouched(w)' /\ Saves(w)'
  BY <1>2, <1>3 DEF Read, Goto, Untouched, OnlyClears, Saves, TemplateInv, TemplateTypes
<1>5. Progress(w)'
  BY <1>2, <1>3, <1>4 DEF Progress, Untouched
<1>6. \A v \in Workers : NewIsUnknown(v)
  BY DEF TemplateInv
<1>7. ASSUME NEW v \in Workers \ {w}, req[v].kind = "create" PROVE req[v].id \notin Named(r)
  <2>1. req[v].id \notin Rows /\ req[v].id \notin Named(req[w])
    BY <1>6, <1>7 DEF NewIsUnknown, Rows
  <2> QED BY <1>2, <2>1 DEF Named, Cleared
<1>8. r.kind = "create" =>
        /\ flag[r.id] = "none"
        /\ \A v \in Workers \ {w} : r.id \notin Named(req[v])
  BY <1>2, <1>6 DEF NewIsUnknown
<1> QED BY <1>2, <1>3, <1>5, <1>7, <1>8, ReadStep DEF Untouched, TemplateSteps

\* A query that learns nothing about rows
LEMMA SameReadStep ==
    ASSUME TemplateInv, NEW w \in Workers, NEW s \in TemplateSteps, Read(w, s, req[w]),
           Progress(w)'
    PROVE  TemplateInv'
<1>1. req[w] \in TemplateRequests /\ WritesAreLocked(w) /\ \A v \in Workers : NewIsUnknown(v)
  BY DEF TemplateInv, TemplateTypes
<1> QED BY <1>1, ReadStep DEF WritesAreLocked, NewIsUnknown

\* Each row that was seen and is still there gets locked and cleared.
LEMMA ClearKept ==
    ASSUME TemplateInv, NEW w \in Workers, EndClear(w) \/ \E t \in Templates : ClearRow(w, t)
    PROVE  TemplateInv'
<1>1. /\ Saves(w) /\ req[w].new = "Y" /\ OnlyClears(w)
      /\ \A t \in Templates : holder[t] = w => writes[w][t] = "N"
      /\ step[w] = "clearing" /\ req[w].visible \subseteq Templates
  BY DEF EndClear, ClearRow, TemplateInv, Progress, TemplateTypes, TemplateRequests
<1>2. CASE EndClear(w)
  <2>1. /\ UNCHANGED <<flag, holder, writes>> /\ step'[w] = "own" /\ req'[w] = req[w]
    BY <1>2 DEF EndClear, Read, Goto, TemplateInv, TemplateTypes
  <2>2. \A t \in req[w].visible \cap Rows : writes[w][t] = "N"
    BY <1>1, <1>2 DEF EndClear, ToClear
  <2>3. Saves(w)' /\ HasCleared(w, {})'
    BY <1>1, <2>1, <2>2 DEF Saves, HasCleared, OnlyClears, Rows
  <2>4. Progress(w)'
    BY <2>1, <2>3 DEF Progress
  <2> QED BY <1>2, <2>4, SameReadStep DEF EndClear, TemplateSteps
<1>3. ASSUME NEW t \in Templates, ClearRow(w, t) PROVE TemplateInv'
  <2>1. Write(w, t, "N") /\ Free(w, t) /\ t \in req[w].visible /\ t \in Rows
    BY <1>3 DEF ClearRow, ToClear
  <2>2. Goto(w, "clearing", req[w]) /\ step'[w] = "clearing" /\ req'[w] = req[w]
    BY <1>1, <1>3 DEF ClearRow, Goto, TemplateInv, TemplateTypes
  <2>3. /\ \A x \in Templates : holder'[x] = IF x = t THEN w ELSE holder[x]
        /\ \A x \in Templates : writes'[w][x] = IF x = t THEN "N" ELSE writes[w][x]
    BY <2>1 DEF Write, TemplateInv, TemplateTypes
  <2>4. Saves(w)' /\ OnlyClears(w)' /\ \A x \in Templates : holder'[x] = w => writes'[w][x] = "N"
    BY <1>1, <2>2, <2>3 DEF Saves, OnlyClears
  <2>5. Progress(w)'
    BY <1>1, <2>2, <2>4 DEF Progress
  <2> QED BY <2>1, <2>2, <2>5, WriteStep DEF Named, TemplateSteps, Flags
<1> QED BY <1>2, <1>3

\* The own row is written beside those that were cleared.
LEMMA WriteOwnKept ==
    ASSUME TemplateInv, NEW w \in Workers, WriteOwn(w)
    PROVE  TemplateInv'
<1> DEFINE t == req[w].id
           value == Column(req[w])
<1>1. /\ Saves(w) /\ HasCleared(w, {}) /\ t \in Templates /\ req[w] \in TemplateRequests
      /\ req[w].kind = "create" \/ t \in Rows
      /\ Write(w, t, value) /\ Goto(w, "commit", req[w]) /\ WritesAreLocked(w) /\ NewIsUnknown(w)
  BY DEF WriteOwn, TemplateInv, Progress, Saves, TemplateTypes
<1>2. value \in Flags \cup {"same"}
  BY <1>1 DEF Column, TemplateRequests, Flags
<1>3. Free(w, t)
  <2>1. CASE req[w].kind = "create"
    <3>1. ASSUME NEW v \in Workers \ {w}, holder[t] = v PROVE FALSE
      <4>1. t \in Named(req[v])
        BY <1>1, <3>1 DEF TemplateInv, WritesAreLocked
      <4> QED BY <1>1, <2>1, <4>1 DEF NewIsUnknown
    <3> QED BY <1>1, <3>1 DEF Free, TemplateInv, TemplateTypes
  <2> QED BY <2>1 DEF WriteOwn
<1>4. /\ step'[w] = "commit" /\ req'[w] = req[w] /\ flag' = flag
      /\ holder'[t] = w
      /\ \A x \in Templates : writes'[w][x] = IF x = t THEN value ELSE writes[w][x]
  BY <1>1 DEF Goto, Write, TemplateInv, TemplateTypes
<1>5. Saves(w)' /\ HasCleared(w, {t})'
  BY <1>1, <1>4 DEF Saves, HasCleared, Rows
<1>6. Progress(w)'
  BY <1>1, <1>4, <1>5 DEF Progress, Rows
<1>7. t \in Named(req[w])
  BY DEF Named
<1> HIDE DEF t, value
<1> QED BY <1>1, <1>2, <1>3, <1>6, <1>7, WriteStep DEF TemplateSteps, t

\* A delete counts the rows it sees, its own among them unless it is gone.
LEMMA CountKept ==
    ASSUME TemplateInv, NEW w \in Workers, Count(w)
    PROVE  TemplateInv'
<1> DEFINE s == IF LastTemplate(Rows) THEN "refuse"
                ELSE IF req[w].loaded = "Y" THEN "other" ELSE "delete"
<1>1. PICK r \in TemplateRequests : r = [req[w] EXCEPT !.visible = Rows]
  BY DEF TemplateInv, TemplateTypes, TemplateRequests, Rows
<1>2. /\ r.kind = req[w].kind /\ r.id = req[w].id /\ r.new = req[w].new
      /\ r.loaded = req[w].loaded /\ r.other = req[w].other /\ r.visible = Rows
  BY <1>1 DEF TemplateInv, TemplateTypes, TemplateRequests
<1>3. /\ req[w].kind = "delete" /\ req[w].id \in Templates /\ req[w].loaded \in Flags
      /\ Untouched(w) /\ Read(w, s, r)
  BY <1>1 DEF Count, TemplateInv, Progress
<1>4. /\ UNCHANGED <<flag, holder, writes>> /\ step'[w] = s /\ req'[w] = r /\ Untouched(w)'
  BY <1>3 DEF Read, Goto, Untouched, TemplateInv, TemplateTypes
<1>5. ~LastTemplate(Rows) => HasCounted(w)' /\ HasPromoted(w, {})'
  <2>1. Cardinality({r.id}) = 1
    BY FS_Singleton
  <2> QED BY <1>2, <1>3, <1>4, <2>1
     DEF HasCounted, HasPromoted, LastTemplate, Rows, Untouched
<1>6. Progress(w)'
  BY <1>2, <1>3, <1>4, <1>5 DEF Progress
<1>7. \A v \in Workers : NewIsUnknown(v)
  BY DEF TemplateInv
<1>8. ASSUME NEW v \in Workers \ {w}, req[v].kind = "create" PROVE req[v].id \notin Named(r)
  <2>1. req[v].id \notin Rows /\ req[v].id \notin Named(req[w])
    BY <1>7, <1>8 DEF NewIsUnknown, Rows
  <2> QED BY <1>2, <2>1 DEF Named
<1>9. s \in TemplateSteps
  BY DEF TemplateSteps
<1> HIDE DEF s
<1> QED BY <1>2, <1>3, <1>6, <1>8, <1>9, ReadStep DEF Untouched

\* The template to promote is one of the rows.
LEMMA PickOtherKept ==
    ASSUME TemplateInv, NEW w \in Workers, PickOther(w)
    PROVE  TemplateInv'
<1>1. /\ HasCounted(w) /\ req[w].loaded = "Y" /\ Untouched(w) /\ req[w] \in TemplateRequests
      /\ \A v \in Workers : NewIsUnknown(v)
  BY DEF PickOther, TemplateInv, TemplateTypes, Progress
<1>2. ASSUME Read(w, "delete", req[w]) PROVE TemplateInv'
  <2>1. /\ UNCHANGED <<flag, holder, writes>> /\ step'[w] = "delete" /\ req'[w] = req[w]
    BY <1>2 DEF Read, Goto, TemplateInv, TemplateTypes
  <2>2. HasCounted(w)' /\ HasPromoted(w, {})'
    BY <1>1, <2>1 DEF HasCounted, HasPromoted, Untouched, Rows
  <2>3. Progress(w)'
    BY <1>1, <2>1, <2>2 DEF Progress, Flags
  <2> QED BY <1>2, <2>3, SameReadStep DEF TemplateSteps
<1>3. ASSUME NEW t \in Promoted(w),
             Read(w, IF flag[t] = "Y" THEN "delete" ELSE "promote",
             [req[w] EXCEPT !.other = t])
      PROVE  TemplateInv'
  <2> DEFINE s == IF flag[t] = "Y" THEN "delete" ELSE "promote"
  <2>1. t \in Rows /\ t \in Templates /\ t # req[w].id
    BY DEF Promoted, Rows
  <2>2. PICK r \in TemplateRequests : r = [req[w] EXCEPT !.other = t]
    BY <1>1, <2>1 DEF TemplateRequests
  <2>3. /\ r.kind = req[w].kind /\ r.id = req[w].id /\ r.new = req[w].new
        /\ r.loaded = req[w].loaded /\ r.other = t /\ r.visible = req[w].visible
    BY <1>1, <2>2 DEF TemplateRequests
  <2>4. /\ UNCHANGED <<flag, holder, writes>> /\ step'[w] = s /\ req'[w] = r /\ Read(w, s, r)
    BY <1>3, <2>2 DEF Read, Goto, TemplateInv, TemplateTypes
  <2>5. HasCounted(w)' /\ HasPromoted(w, {})' /\ Untouched(w)'
    BY <1>1, <2>3, <2>4 DEF HasCounted, HasPromoted, Untouched, Rows
  <2>6. Progress(w)'
    BY <1>1, <2>1, <2>3, <2>4, <2>5 DEF Progress, Flags
  <2>7. ASSUME NEW v \in Workers \ {w}, req[v].kind = "create" PROVE req[v].id \notin Named(r)
    <3>1. req[v].id \notin Rows /\ req[v].id \notin Named(req[w])
      BY <1>1, <2>7 DEF NewIsUnknown, Rows
    <3> QED BY <2>1, <2>3, <3>1 DEF Named
  <2>8. s \in TemplateSteps /\ r.kind = "delete"
    BY <1>1, <2>3 DEF TemplateSteps, HasCounted
  <2> HIDE DEF s
  <2> QED BY <1>1, <2>4, <2>6, <2>7, <2>8, ReadStep DEF Untouched
<1> QED BY <1>2, <1>3 DEF PickOther

\* The other template is promoted, and the own one deleted.
LEMMA DeleteKept ==
    ASSUME TemplateInv, NEW w \in Workers, Promote(w) \/ Delete(w)
    PROVE  TemplateInv'
<1>1. /\ HasCounted(w) /\ req[w].loaded \in Flags /\ req[w].id \in Templates
      /\ req[w] \in TemplateRequests
  BY DEF Promote, Delete, TemplateInv, TemplateTypes, Progress, HasCounted, Flags
<1>2. CASE Promote(w)
  <2> DEFINE t == req[w].other
  <2>1. /\ t \in Rows /\ t \in Templates /\ Free(w, t) /\ Write(w, t, "Y")
        /\ Goto(w, "delete", req[w]) /\ req[w].loaded = "Y" /\ Untouched(w)
    BY <1>2 DEF Promote, TemplateInv, Progress, Rows
  <2>2. /\ step'[w] = "delete" /\ req'[w] = req[w] /\ flag' = flag
        /\ \A x \in Templates : writes'[w][x] = IF x = t THEN "Y" ELSE writes[w][x]
    BY <2>1 DEF Goto, Write, TemplateInv, TemplateTypes
  <2>3. HasCounted(w)' /\ HasPromoted(w, {})'
    BY <1>1, <2>1, <2>2 DEF HasCounted, HasPromoted, Untouched, Rows
  <2>4. Progress(w)'
    BY <1>1, <2>2, <2>3 DEF Progress
  <2>5. t \in Named(req[w])
    BY DEF Named
  <2> HIDE DEF t
  <2> QED BY <2>1, <2>4, <2>5, WriteStep DEF TemplateSteps, Flags
<1>3. CASE Delete(w)
  <2> DEFINE t == req[w].id
  <2>1. /\ Free(w, t) /\ Write(w, t, "none") /\ Goto(w, "commit", req[w])
        /\ HasPromoted(w, {}) /\ t \in Named(req[w])
    BY <1>3 DEF Delete, TemplateInv, Progress, Named
  <2>2. /\ step'[w] = "commit" /\ req'[w] = req[w] /\ flag' = flag
        /\ \A x \in Templates : writes'[w][x] = IF x = t THEN "none" ELSE writes[w][x]
    BY <2>1 DEF Goto, Write, TemplateInv, TemplateTypes
  <2>3. HasCounted(w)' /\ HasPromoted(w, {t})'
    BY <1>1, <2>1, <2>2 DEF HasCounted, HasPromoted, Rows
  <2>4. Progress(w)'
    BY <1>1, <2>2, <2>3 DEF Progress
  <2> HIDE DEF t
  <2> QED BY <1>1, <2>1, <2>4, WriteStep DEF TemplateSteps, Flags, t
<1> QED BY <1>2, <1>3

\* Any number of requests in parallel keep the invariant, whichever fail.
THEOREM TemplateInvariance == Spec => []TemplateInv
<1>1. TemplateInv /\ [Next]_vars => TemplateInv'
  <2> SUFFICES ASSUME TemplateInv, [Next]_vars PROVE TemplateInv'
    OBVIOUS
  <2>1. CASE UNCHANGED vars
    BY <2>1 DEF vars, TemplateInv, TemplateTypes, WritesAreLocked, NewIsUnknown,
       Progress, Rows,
                Untouched, OnlyClears, Saves, HasCleared, HasCounted, HasPromoted
  <2>2. ASSUME NEW w \in Workers, Request(w) \/ Handle(w) PROVE TemplateInv'
    <3>1. CASE Rollback(w)
      BY <3>1, RollbackStep
    <3>2. ASSUME OwnFails(w) \/ Refuse(w) \/ PromoteFails(w) \/ BreakDeadlock(w)
          PROVE  Rollback(w)
      BY <3>2 DEF OwnFails, Refuse, PromoteFails, BreakDeadlock, Victim
    <3> QED BY <2>2, <3>1, <3>2, RequestStep, StartClearKept, ClearKept, WriteOwnKept,
       CountKept,
               PickOtherKept, DeleteKept, CommitStep DEF Handle
  <2> QED BY <2>1, <2>2 DEF Next
<1> QED BY <1>1, TemplateInitial, PTL DEF Spec

-----------------------------------------------------------------------------
\* Only a commit changes a template.
LEMMA OnlyCommitsChange ==
    ASSUME TemplateInv, [Next]_vars, flag' # flag
    PROVE  \E w \in Workers : Commit(w)
<1>1. PICK w \in Workers : Request(w) \/ Handle(w)
  BY DEF Next, vars
<1>2. CASE Request(w)
  BY <1>2 DEF Request, BeginCreate, BeginUpdate, BeginDelete, BeginSetDefault, Read
<1>3. CASE Handle(w)
  BY <1>3 DEF Handle, StartClear, EndClear, ClearRow, WriteOwn, OwnFails, Count, Refuse,
              PickOther, Promote, PromoteFails, Delete, BreakDeadlock, Victim, Read,
              Write,
              Rollback
<1> QED BY <1>1, <1>2, <1>3

\* What becomes the default with a commit is written by it.
LEMMA NewDefaults ==
    ASSUME TemplateInv, NEW w \in Workers, Commit(w)
    PROVE  /\ \A t \in Templates :
                /\ t \in Defaults' <=> writes[w][t] = "Y" \/ (writes[w][t] = "same" /\ t \in Defaults)
                /\ t \in Rows' <=> writes[w][t] \in Flags \/ (writes[w][t] = "same" /\ t \in Rows)
           /\ Committing(w) /\ Defaults \subseteq Templates /\ Defaults' \subseteq Templates
           /\ Rows \subseteq Templates
<1>1. writes[w] \in [Templates -> Flags \cup {"none", "same"}]
  BY DEF TemplateInv, TemplateTypes
<1>2. Committing(w)
  BY DEF Commit, Goto, Committing, TemplateInv, TemplateTypes
<1>3. ASSUME NEW t \in Templates
      PROVE  /\ t \in Defaults' <=>
                  writes[w][t] = "Y" \/ (writes[w][t] = "same" /\ t \in Defaults)
             /\ t \in Rows' <=>
                  writes[w][t] \in Flags \/ (writes[w][t] = "same" /\ t \in Rows)
  <2>1. flag'[t] = IF writes[w][t] # "same" THEN writes[w][t] ELSE flag[t]
    BY CommitWrites
  <2>2. writes[w][t] \in Flags \cup {"none", "same"}
    BY <1>1
  <2> QED BY <2>1, <2>2 DEF Defaults, Rows, Flags
<1>4. Defaults \subseteq Templates /\ Defaults' \subseteq Templates /\ Rows \subseteq Templates
  BY DEF Defaults, Rows
<1> QED BY <1>2, <1>3, <1>4

\* A second default comes from a request that could not see the first one.
LEMMA SecondDefault ==
    ASSUME TemplateInv, NEW w \in Workers, Commit(w), Cardinality(Defaults) <= 1,
           Cardinality(Defaults') > 1
    PROVE  \/ req[w].kind = "delete" /\ StaleOwn(w)
           \/ \E t \in Defaults \ {req[w].id} : t \notin req[w].visible
<1> DEFINE id == req[w].id
<1>1. \A x, y \in Defaults : x = y
  <2>1. IsFiniteSet(Defaults)
    BY NewDefaults, TemplatesAssumption, FS_Subset
  <2> QED BY <2>1, AtMostOne
<1>2. PICK x \in Defaults', y \in Defaults' : x # y
  <2>1. IsFiniteSet(Defaults')
    BY NewDefaults, TemplatesAssumption, FS_Subset
  <2>2. Cardinality(Defaults') \in Nat
    BY <2>1, FS_CardinalityType
  <2> QED BY <2>1, <2>2, AtMostOne
<1>3. x \in Templates /\ y \in Templates /\ id \in Templates
  BY NewDefaults, CommitWrites
<1>4. CASE Saves(w) /\ HasCleared(w, {id})
  <2>1. PICK z \in Defaults' : z # id
    BY <1>2
  <2>2. writes[w][z] = "same" /\ z \in Defaults
    BY <1>4, <2>1, NewDefaults DEF HasCleared
  <2>3. CASE req[w].new = "Y"
    <3>1. z \in Rows
      BY <2>2 DEF Defaults, Rows
    <3>2. z \notin req[w].visible
      BY <1>4, <2>1, <2>2, <2>3, <3>1 DEF HasCleared, Rows
    <3> QED BY <2>1, <2>2, <3>2
  <2>4. CASE req[w].new # "Y"
    <3>1. Saves(w) /\ writes[w][id] = Column(req[w])
      BY <1>4, CommitWrites DEF Saves, HasCounted
    <3>2. writes[w][id] # "Y"
      BY <2>4, <3>1 DEF Column
    <3>3. \A t \in Defaults' : t \in Defaults
      BY <1>3, <1>4, <2>4, <3>2, NewDefaults DEF HasCleared
    <3> QED BY <1>1, <1>2, <3>3
  <2> QED BY <2>3, <2>4
<1>5. CASE HasCounted(w) /\ HasPromoted(w, {id}) /\ writes[w][id] = "none"
  <2>1. \A t \in Defaults' : t # id
    BY <1>5, NewDefaults DEF Flags
  <2>2. PICK z \in Defaults' : writes[w][z] # "same"
    BY <1>1, <1>2, NewDefaults
  <2>3. writes[w][z] = "Y" /\ req[w].loaded = "Y" /\ z = req[w].other
    BY <1>5, <2>1, <2>2, NewDefaults DEF HasPromoted
  <2>4. CASE flag[id] = "Y"
    <3>1. \A t \in Defaults' : t = z
      BY <1>1, <1>3, <1>5, <2>1, <2>3, <2>4, NewDefaults DEF HasPromoted, Defaults
    <3> QED BY <1>2, <3>1
  <2>5. CASE flag[id] # "Y"
    BY <1>5, <2>3, <2>5 DEF StaleOwn, HasCounted
  <2> QED BY <2>4, <2>5
<1> QED BY <1>4, <1>5, CommitWrites

\* The default is lost to an update that says so or works with a stale copy, or
\* to a delete.
LEMMA LostDefault ==
    ASSUME TemplateInv, NEW w \in Workers, Commit(w), Defaults # {}, Defaults' = {}
    PROVE  \/ req[w].kind = "update" /\ (req[w].new = "N" \/ StaleOwn(w))
           \/ req[w].kind = "delete" /\ (StaleOwn(w) \/ ~Promotes(w))
<1> DEFINE id == req[w].id
<1>1. PICK d \in Defaults : d \in Templates
  BY NewDefaults
<1>2. CASE /\ Saves(w) /\ HasCleared(w, {id}) /\ writes[w][id] = Column(req[w])
           /\ req[w].kind = "create" \/ id \in Rows
  <2>1. writes[w][id] # "Y" /\ id \in Templates
    BY <1>2, CommitWrites, NewDefaults
  <2>2. CASE req[w].new = "Y"
    <3>1. req[w].loaded = "Y" /\ writes[w][id] = "same"
      BY <1>2, <2>1, <2>2 DEF Column, Keep
    <3>2. req[w].kind = "update" /\ flag[id] # "Y"
      BY <1>2, <2>1, <3>1, NewDefaults DEF Saves, Defaults, Keep
    <3> QED BY <3>1, <3>2 DEF StaleOwn
  <2>3. CASE req[w].new # "Y"
    <3>1. d = id
      BY <1>1, <1>2, <2>3, NewDefaults DEF HasCleared
    <3>2. writes[w][id] # "same"
      BY <1>1, <3>1, NewDefaults
    <3>3. req[w].kind # "create"
      <4>1. NewIsUnknown(w)
        BY DEF TemplateInv
      <4> QED BY <3>1, <4>1 DEF NewIsUnknown, Defaults
    <3>4. req[w].kind = "update" /\ req[w].new = "N"
      <4>1. req[w].new \in Flags \cup {Keep}
        BY DEF TemplateInv, TemplateTypes, TemplateRequests
      <4>2. req[w].new # Keep
        BY <1>2, <3>2 DEF Column
      <4>3. req[w].new = "N"
        BY <2>3, <4>1, <4>2 DEF Flags
      <4> QED BY <1>2, <3>3, <4>3 DEF Saves
    <3> QED BY <3>4
  <2> QED BY <2>2, <2>3
<1>3. CASE HasCounted(w) /\ HasPromoted(w, {id}) /\ writes[w][id] = "none"
  <2>1. ~Promotes(w)
    BY NewDefaults DEF Promotes
  <2> QED BY <1>3, <2>1 DEF HasCounted
<1> QED BY <1>2, <1>3, CommitWrites

\* The last template is deleted by a request that has seen another one.
LEMMA LostLast ==
    ASSUME TemplateInv, NEW w \in Workers, Commit(w), Rows # {}, Rows' = {}
    PROVE  req[w].visible \ Rows # {}
<1> DEFINE id == req[w].id
<1>1. id \in Templates /\ id \notin Rows' /\ \A t \in Templates : writes[w][t] \notin Flags
  BY CommitWrites, NewDefaults
<1>2. CASE /\ Saves(w) /\ writes[w][id] = Column(req[w])
           /\ req[w].kind = "create" \/ id \in Rows
  <2>1. req[w].new \in Flags \cup {Keep}
    BY DEF TemplateInv, TemplateTypes, TemplateRequests
  <2>2. writes[w][id] \in Flags \cup {"same"}
    BY <1>2, <2>1 DEF Column
  <2>3. writes[w][id] = "same" /\ id \in Rows
    BY <1>1, <1>2, <2>2 DEF Column, Saves, Flags, Keep
  <2> QED BY <1>1, <2>3, NewDefaults
<1>3. CASE HasCounted(w) /\ HasPromoted(w, {id}) /\ writes[w][id] = "none"
  <2>1. \A t \in Templates \ {id} : writes[w][t] = "same"
    BY <1>1, <1>3 DEF HasPromoted, Flags
  <2>2. Rows = {id}
    BY <1>1, <2>1, NewDefaults
  <2> QED BY <1>3, <2>2 DEF HasCounted
<1> QED BY <1>2, <1>3, CommitWrites

\* For any number of templates and of requests in parallel: a second default, no
\* default and no template at all come only from a request that could not see
\* what it should have, or works with a stale copy.
THEOREM DefaultsAlwaysExplained == Spec => DefaultsAreExplained
<1> DEFINE Second == \E w \in Workers :
             /\ Committing(w)
             /\ \/ req[w].kind = "delete" /\ StaleOwn(w)
                \/ \E t \in Defaults \ {req[w].id} : t \notin req[w].visible
           Lost == \E w \in Workers :
             /\ Committing(w)
             /\ \/ req[w].kind = "update" /\ (req[w].new = "N" \/ StaleOwn(w))
                \/ req[w].kind = "delete" /\ (StaleOwn(w) \/ ~Promotes(w))
           LastOne == \E w \in Workers : Committing(w) /\ req[w].visible \ Rows # {}
<1>1. TemplateInv /\ [Next]_vars =>
        [(Cardinality(Defaults) <= 1 /\ Cardinality(Defaults') > 1) => Second]_vars
  <2> SUFFICES ASSUME TemplateInv, [Next]_vars, Cardinality(Defaults) <= 1,
                      Cardinality(Defaults') > 1
               PROVE  Second
    OBVIOUS
  <2>1. flag' # flag
    <3>1. flag' = flag => Defaults' = Defaults
      BY DEF Defaults
    <3>2. IsFiniteSet(Defaults)
      BY TemplatesAssumption, FS_Subset DEF Defaults
    <3>3. Cardinality(Defaults) \in Nat
      BY <3>2, FS_CardinalityType
    <3> QED BY <3>1, <3>3
  <2> QED BY <2>1, OnlyCommitsChange, SecondDefault, NewDefaults
<1>2. TemplateInv /\ [Next]_vars => [(Defaults # {} /\ Defaults' = {}) => Lost]_vars
  <2> SUFFICES ASSUME TemplateInv, [Next]_vars, Defaults # {}, Defaults' = {}
               PROVE  Lost
    OBVIOUS
  <2>1. flag' # flag
    BY DEF Defaults
  <2> QED BY <2>1, OnlyCommitsChange, LostDefault, NewDefaults
<1>3. TemplateInv /\ [Next]_vars => [(Rows # {} /\ Rows' = {}) => LastOne]_vars
  <2> SUFFICES ASSUME TemplateInv, [Next]_vars, Rows # {}, Rows' = {}
               PROVE  LastOne
    OBVIOUS
  <2>1. flag' # flag
    BY DEF Rows
  <2> QED BY <2>1, OnlyCommitsChange, LostLast, NewDefaults
<1> QED
  BY <1>1, <1>2, <1>3, TemplateInvariance, PTL
  DEF Spec, DefaultsAreExplained, SecondDefaultWasUnseen, DefaultLostToStaleRequest,
      LastTemplateWasCounted
=============================================================================
