---------------------------- MODULE NodeTemplates ----------------------------
(***************************************************************************)
(* backend/services/template_service.py: the node templates of one user,   *)
(* of which at most one should be the default.  The routes are plain       *)
(* functions, so FastAPI handles requests in parallel threads, each with a *)
(* database session of its own.                                            *)
(*                                                                         *)
(* PostgreSQL runs the transactions at READ COMMITTED.  A query sees the   *)
(* rows committed when it starts.  A statement that writes a row locks it  *)
(* until the transaction ends, waits for the lock if another transaction   *)
(* has it, and then sees the row as that transaction left it.  SQLAlchemy  *)
(* does not load a row again that the session has, writes only the columns *)
(* whose value differs from the loaded one, and does so at the commit;     *)
(* Query.update() is a statement of its own, run at once.                  *)
(***************************************************************************)
EXTENDS Naturals, FiniteSets, NoneValue

CONSTANTS
    Templates,  \* primary keys
    Workers     \* threads that handle requests

ASSUME NoneAssumption == None \notin Templates \cup Workers

\* A table has finitely many rows, and a life of the system too.
ASSUME TemplatesAssumption == IsFiniteSet(Templates)

VARIABLES
    flag,    \* is_default of the committed rows, "none" where there is no row
    holder,  \* the transaction that has locked a row
    writes,  \* what each transaction has written, "same" for what it has not
    step,    \* what each worker does next
    req      \* its request and what it has read

vars == <<flag, holder, writes, step, req>>

Flags == {"Y", "N"}
Keep == "keep"  \* the field is absent from the request

Rows == {t \in Templates : flag[t] # "none"}
Defaults == {t \in Templates : flag[t] = "Y"}

NoWrites == [t \in Templates |-> "same"]
Idle == [kind |-> "none", id |-> None, new |-> Keep, loaded |-> Keep,
         other |-> None, visible |-> {}]

\* Any templates, at most one of them the default.
Init ==
    /\ flag \in [Templates -> Flags \cup {"none"}]
    /\ Cardinality(Defaults) <= 1
    /\ holder = [t \in Templates |-> None]
    /\ writes = [w \in Workers |-> NoWrites]
    /\ step = [w \in Workers |-> "idle"]
    /\ req = [w \in Workers |-> Idle]

-----------------------------------------------------------------------------
\* What the steps of a request are made of

Goto(w, s, r) ==
    /\ step' = [step EXCEPT ![w] = s]
    /\ req' = [req EXCEPT ![w] = r]

\* A query that locks nothing.
Read(w, s, r) == Goto(w, s, r) /\ UNCHANGED <<flag, holder, writes>>

Release(w) ==
    /\ holder' = [t \in Templates |-> IF holder[t] = w THEN None ELSE holder[t]]
    /\ writes' = [writes EXCEPT ![w] = NoWrites]

\* get_db closes the session of a request that has failed.
Rollback(w) == Goto(w, "idle", Idle) /\ Release(w) /\ UNCHANGED flag

\* The statement has the lock of row t.
Free(w, t) == holder[t] \in {None, w}

\* A row is written, to be committed later.
Write(w, t, value) ==
    /\ holder' = [holder EXCEPT ![t] = w]
    /\ writes' = [writes EXCEPT ![w][t] = value]
    /\ UNCHANGED flag

\* A key that no row and no request uses; keys are random UUIDs.
Fresh(t) ==
    /\ flag[t] = "none"
    /\ \A w \in Workers : t # req[w].id /\ t # req[w].other /\ t \notin req[w].visible

-----------------------------------------------------------------------------
\* The first query of each request.  A request for a template that is not there
\* ends at once, and so does a create whose name is taken: neither changes
\* anything.

BeginCreate(w, t, new) ==
    /\ step[w] = "idle" /\ Fresh(t)
    /\ Read(w, IF new = "Y" THEN "clear" ELSE "own",
            [Idle EXCEPT !.kind = "create", !.id = t, !.new = new])

BeginUpdate(w, t, new) ==
    /\ step[w] = "idle" /\ t \in Rows
    /\ Read(w, IF new = "Y" THEN "clear" ELSE "own",
            [Idle EXCEPT !.kind = "update", !.id = t, !.new = new,
                         !.loaded = flag[t]])

BeginDelete(w, t) ==
    /\ step[w] = "idle" /\ t \in Rows
    /\ Read(w, "count",
            [Idle EXCEPT !.kind = "delete", !.id = t, !.loaded = flag[t]])

BeginSetDefault(w, t) ==
    /\ step[w] = "idle" /\ t \in Rows
    /\ Read(w, "clear",
            [Idle EXCEPT !.kind = "set_default", !.id = t, !.new = "Y"])

-----------------------------------------------------------------------------
\* The statement that sets is_default to "N" for the templates of the user.
\* set_default does not spare its own row, and SQLAlchemy then takes the loaded
\* value to be "N": the "Y" that follows is always written.

Cleared(w) == IF req[w].kind = "update" THEN Rows \ {req[w].id} ELSE Rows

StartClear(w) ==
    /\ step[w] = "clear"
    /\ Read(w, "clearing", [req[w] EXCEPT !.visible = Cleared(w)])

\* Mutant: locked rows are skipped.
ToClearMutant(w) == {t \in req[w].visible \cap Rows : holder[t] = None}

\* The rows it has still to lock; one that has been deleted is passed over.
ToClear(w) == {t \in req[w].visible \cap Rows : holder[t] # w}

ClearRow(w, t) ==
    /\ step[w] = "clearing"
    /\ t \in ToClear(w) /\ Free(w, t)
    /\ Write(w, t, "N")
    /\ UNCHANGED <<step, req>>

EndClear(w) ==
    /\ step[w] = "clearing" /\ ToClear(w) = {}
    /\ Read(w, "own", req[w])

-----------------------------------------------------------------------------
\* The flush at the commit of create, update and set_default: the own row

\* What is written to is_default.
Column(r) == IF r.new \in {Keep, r.loaded} THEN "same" ELSE r.new

WriteOwn(w) ==
    /\ step[w] = "own"
    /\ req[w].kind = "create" \/ (req[w].id \in Rows /\ Free(w, req[w].id))
    /\ Write(w, req[w].id, Column(req[w]))
    /\ Goto(w, "commit", req[w])

\* The row has been deleted (StaleDataError), or another template has the name
\* (uq_user_template_name).
OwnFails(w) ==
    /\ step[w] = "own"
    /\ req[w].id \notin Rows \/ req[w].kind # "set_default"
    /\ Rollback(w)

-----------------------------------------------------------------------------
\* delete_template

LastTemplate(rows) == Cardinality(rows) = 1

Count(w) ==
    /\ step[w] = "count"
    /\ Read(w, IF LastTemplate(Rows) THEN "refuse"
               ELSE IF req[w].loaded = "Y" THEN "other" ELSE "delete",
            [req[w] EXCEPT !.visible = Rows])

Refuse(w) == step[w] = "refuse" /\ Rollback(w)

\* first() without an order: any other row.
Promoted(w) == Rows \ {req[w].id}

\* The other template becomes the default, unless it was loaded as one.
PickOther(w) ==
    /\ step[w] = "other"
    /\ \/ \E t \in Promoted(w) :
            Read(w, IF flag[t] = "Y" THEN "delete" ELSE "promote",
                 [req[w] EXCEPT !.other = t])
       \/ Promoted(w) = {} /\ Read(w, "delete", req[w])

Promote(w) ==
    /\ step[w] = "promote"
    /\ req[w].other \in Rows /\ Free(w, req[w].other)
    /\ Write(w, req[w].other, "Y")
    /\ Goto(w, "delete", req[w])

\* The other template has been deleted: StaleDataError.
PromoteFails(w) ==
    /\ step[w] = "promote" /\ req[w].other \notin Rows
    /\ Rollback(w)

\* A row that is gone already only raises a warning.
Delete(w) ==
    /\ step[w] = "delete"
    /\ Free(w, req[w].id)
    /\ Write(w, req[w].id, "none")
    /\ Goto(w, "commit", req[w])

-----------------------------------------------------------------------------
Commit(w) ==
    /\ step[w] = "commit"
    /\ flag' = [t \in Templates |->
                  IF writes[w][t] # "same" THEN writes[w][t] ELSE flag[t]]
    /\ Release(w)
    /\ Goto(w, "idle", Idle)

\* The rows whose lock a worker needs next.
Needed(w) ==
    CASE step[w] = "clearing" -> ToClear(w)
      [] step[w] = "own" /\ req[w].kind # "create" -> {req[w].id} \cap Rows
      [] step[w] = "promote" -> {req[w].other} \cap Rows
      [] step[w] = "delete" -> {req[w].id} \cap Rows
      [] OTHER -> {}

WaitsFor(w) == {holder[t] : t \in Needed(w)} \ {None, w}

\* Mutant: the statement is tried again, and the locks are kept.
VictimMutant(w) == Read(w, "clear", req[w])

Victim(w) == Rollback(w)

\* PostgreSQL aborts one of the transactions that wait for each other.
BreakDeadlock(w) ==
    /\ \E S \in SUBSET Workers :
          w \in S /\ \A v \in S : WaitsFor(v) \cap S # {}
    /\ Victim(w)

Request(w) ==
    \E t \in Templates :
        \/ \E new \in Flags : BeginCreate(w, t, new)
        \/ \E new \in Flags \cup {Keep} : BeginUpdate(w, t, new)
        \/ BeginDelete(w, t)
        \/ BeginSetDefault(w, t)

Handle(w) ==
    \/ StartClear(w) \/ EndClear(w) \/ \E t \in Templates : ClearRow(w, t)
    \/ WriteOwn(w) \/ OwnFails(w)
    \/ Count(w) \/ Refuse(w) \/ PickOther(w)
    \/ Promote(w) \/ PromoteFails(w) \/ Delete(w)
    \/ Commit(w) \/ BreakDeadlock(w)

Next == \E w \in Workers : Request(w) \/ Handle(w)

Spec == Init /\ [][Next]_vars

\* Threads go on, and waiting transactions get a lock in their turn.
FairSpec == Spec /\ \A w \in Workers : SF_vars(Handle(w))
-----------------------------------------------------------------------------
Committing(w) == step[w] = "commit" /\ step'[w] = "idle"

\* The template of the request is not any more as the request loaded it.
StaleOwn(w) == flag[req[w].id] # req[w].loaded

\* Its transaction makes another template the default.
Promotes(w) == \E t \in Templates : writes[w][t] = "Y" /\ t # req[w].id

\* A second default appears only when a delete promotes another template for
\* one that is no default any more, or when the statement that clears the
\* defaults could not see a row, which was inserted meanwhile.  However updates
\* and set_default requests overlap among themselves, they leave one default.
SecondDefaultWasUnseen ==
    [][(Cardinality(Defaults) <= 1 /\ Cardinality(Defaults') > 1) =>
        \E w \in Workers :
            /\ Committing(w)
            /\ \/ req[w].kind = "delete" /\ StaleOwn(w)
               \/ \E t \in Defaults \ {req[w].id} : t \notin req[w].visible]_vars

\* A user with a default template loses it only to an update that says so, to a
\* request that works with a stale copy of its template, or to a delete that
\* found no other template to promote, or only one loaded as a default: no
\* overlap of set_default and create requests does it.
DefaultLostToStaleRequest ==
    [][(Defaults # {} /\ Defaults' = {}) =>
        \E w \in Workers :
            /\ Committing(w)
            /\ \/ req[w].kind = "update" /\ (req[w].new = "N" \/ StaleOwn(w))
               \/ req[w].kind = "delete" /\ (StaleOwn(w) \/ ~Promotes(w))]_vars

\* "At least one template must exist": the last one is deleted only by a request
\* that has counted another one, which was deleted in parallel.
LastTemplateWasCounted ==
    [][(Rows # {} /\ Rows' = {}) =>
        \E w \in Workers : Committing(w) /\ req[w].visible \ Rows # {}]_vars

\* The three together: a second default, no default and no template at all are
\* each explained by what the request at fault could not have seen.
DefaultsAreExplained ==
    SecondDefaultWasUnseen /\ DefaultLostToStaleRequest /\ LastTemplateWasCounted

\* Every request ends, although updates may wait for each other's rows.
RequestsEnd == \A w \in Workers : (step[w] # "idle") ~> (step[w] = "idle")
=============================================================================
