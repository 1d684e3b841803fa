---------------------------- MODULE Integrations -----------------------------
(***************************************************************************)
(* The integrations of a user (backend/services/settings_service.py),      *)
(* which one process keeps in a dictionary of lists.  Its requests run in  *)
(* the threads of the server's pool and nothing locks the dictionary: a    *)
(* thread may be interrupted between any two of the reads and writes that  *)
(* are the steps here.  add_integration appends to the list that is there, *)
(* delete_integration puts a new list in its place.  The list of one user  *)
(* is modelled, as a list object among those that have been made, because  *)
(* a thread that has fetched one may append to it after it was replaced.   *)
(* Of a list the set of its ids is kept: each is appended once, and nobody *)
(* asks for their order.                                                   *)
(***************************************************************************)
EXTENDS Integers, Sequences, FiniteSets, NoneValue

CONSTANTS
    Threads,
    Names,          \* what an integration may be called; its type is left out
    MaxAdds,        \* bound on the integrations that are made
    MaxDeletes

\* A deletion whose list has been made
ReplaceStates ==
    [step : {"replace", "compare"}, id : Nat, length : Nat, list : Nat]

ASSUME NoListAssumption == None \notin Nat \cup ReplaceStates

VARIABLES
    heap,           \* the lists that have been made
    current,        \* the one in the dictionary, None at first
    thread,         \* what each thread is doing
    named,          \* the name of each integration that was made; its id is
                    \* its place here
    deletes,
    answers,        \* history: pairs <<answer, id>> that were given, and the
    crossed         \*          ids that were added or deleted while a list that
                    \*          knew nothing of it waited to be put in

integrationVars == <<heap, current, thread, named, deletes, answers, crossed>>

IntegrationInit ==
    /\ heap = <<>> /\ current = None
    /\ thread = [t \in Threads |-> None]
    /\ named = <<>> /\ deletes = 0
    /\ answers = {} /\ crossed = {}

SetThread(t, state) == thread' = [thread EXCEPT ![t] = state]
ThreadAt(t, step) == thread[t] # None /\ thread[t].step = step

\* The ids that are in the list of the dictionary
Stored == IF current = None THEN {} ELSE heap[current]

-----------------------------------------------------------------------------
\* get_integrations() and add_integration() that find no list for the user
NoList(t) ==
    /\ thread[t] = None /\ current = None
    /\ SetThread(t, [step |-> "create"])
    /\ UNCHANGED <<heap, current, named, deletes, answers, crossed>>

\* put an empty one there, in the place of one that is there by now, and go on
\* as a request that has found it.
CreateList(t) ==
    /\ ThreadAt(t, "create")
    /\ heap' = Append(heap, {})
    /\ current' = Len(heap')
    /\ crossed' = crossed \cup Stored
    /\ SetThread(t, None)
    /\ UNCHANGED <<named, deletes, answers>>

\* Deletions whose list is made and not yet put in
Waiting == {t \in Threads : ThreadAt(t, "replace")}

\* add_integration(): the loop over the names reads the list as it grows, so
\* that its end decides.
Add(t, name) ==
    /\ thread[t] = None /\ current # None /\ Len(named) < MaxAdds
    /\ \A id \in heap[current] : named[id] # name
    /\ named' = Append(named, name)
    /\ SetThread(t, [step |-> "fetch", id |-> Len(named')])
    /\ UNCHANGED <<heap, current, deletes, answers, crossed>>

\* The list is fetched from the dictionary,
FetchList(t) ==
    /\ ThreadAt(t, "fetch")
    /\ SetThread(t, [step |-> "append", id |-> thread[t].id, list |-> current])
    /\ UNCHANGED <<heap, current, named, deletes, answers, crossed>>

\* appended to, and the integration answered.
AppendTo(t) ==
    /\ ThreadAt(t, "append")
    /\ heap' = [heap EXCEPT ![thread[t].list] = @ \cup {thread[t].id}]
    /\ answers' = answers \cup {<<"added", thread[t].id>>}
    /\ crossed' = IF Waiting # {} \/ thread[t].list # current
                    THEN crossed \cup {thread[t].id} ELSE crossed
    /\ SetThread(t, None)
    /\ UNCHANGED <<current, named, deletes>>

-----------------------------------------------------------------------------
\* delete_integration() of an id that a client was given
DeleteIntegration(t, id) ==
    /\ thread[t] = None /\ deletes < MaxDeletes
    /\ <<"added", id>> \in answers
    /\ deletes' = deletes + 1
    /\ SetThread(t, [step |-> "copy", id |-> id, length |-> Cardinality(Stored)])
    /\ UNCHANGED <<heap, current, named, answers, crossed>>

\* Mutant: every integration of that name is left out.
WithoutMutant(list, id) == {x \in list : named[x] # named[id]}

Without(list, id) == list \ {id}

\* The list without it is made,
Copy(t) ==
    /\ ThreadAt(t, "copy")
    /\ heap' = Append(heap, Without(Stored, thread[t].id))
    /\ SetThread(t, [step |-> "replace", id |-> thread[t].id,
                     length |-> thread[t].length, list |-> Len(heap')])
    /\ UNCHANGED <<current, named, deletes, answers, crossed>>

\* takes the place of the other,
Replace(t) ==
    /\ ThreadAt(t, "replace")
    /\ current' = thread[t].list
    /\ crossed' = IF Waiting # {t} THEN crossed \cup {thread[s].id : s \in Waiting}
                  ELSE crossed
    /\ SetThread(t, [thread[t] EXCEPT !.step = "compare"])
    /\ UNCHANGED <<heap, named, deletes, answers>>

Removed(length, list) == Cardinality(list) # length

\* and its length tells whether there was one to delete.
Compare(t) ==
    /\ ThreadAt(t, "compare")
    /\ answers' = answers \cup
         {<<IF Removed(thread[t].length, Stored) THEN "deleted" ELSE "not found",
            thread[t].id>>}
    /\ SetThread(t, None)
    /\ UNCHANGED <<heap, current, named, deletes, crossed>>

IntegrationNext ==
    \E t \in Threads :
      \/ NoList(t) \/ CreateList(t)
      \/ \E n \in Names : Add(t, n)
      \/ FetchList(t) \/ AppendTo(t)
      \/ \E id \in DOMAIN named : DeleteIntegration(t, id)
      \/ Copy(t) \/ Replace(t) \/ Compare(t)

IntegrationSpec == IntegrationInit /\ [][IntegrationNext]_integrationVars

-----------------------------------------------------------------------------
\* The deletion of an integration is being asked for, or was.
DeletionAsked(id) ==
    \/ \E t \in Threads : /\ \E step \in {"copy", "replace", "compare"} : ThreadAt(t, step)
                          /\ thread[t].id = id
    \/ {<<"deleted", id>>, <<"not found", id>>} \cap answers # {}

\* An integration that was answered stays until its deletion is asked for, and
\* one whose deletion was answered is gone, except when its append, or its
\* deletion, fell between the copy and the replacement of another deletion, or
\* between the test for a first list and its creation by another request:
\* either undoes it without a word to its client.
AnswersAreKept ==
    \A id \in DOMAIN named : id \notin crossed =>
      /\ <<"added", id>> \in answers /\ ~DeletionAsked(id) => id \in Stored
      /\ <<"deleted", id>> \in answers => id \notin Stored
=============================================================================
