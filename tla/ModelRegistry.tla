--------------------------- MODULE ModelRegistry ---------------------------
(***************************************************************************)
(* llm-gateway's model registry: the model table, the copy of it that each *)
(* gateway process keeps in memory, the administrators' requests that      *)
(* change the table and the calls that resolve an alias.  A request runs   *)
(* in its own transaction, committed when the request is over; reloading   *)
(* the copy opens another one, so it sees what was committed before.       *)
(***************************************************************************)
EXTENDS Naturals

CONSTANTS
  Processes,  \* llm-gateway processes
  Aliases,
  Values,     \* what a row may say: endpoint, model name, enabled, costs
  EnabledIn,  \* the values that say enabled
  Absent,     \* no such row
  Admins      \* bound: administrators' requests in flight

ASSUME RegistryAssumption ==
  /\ EnabledIn \subseteq Values
  /\ Absent \notin Values

VARIABLES
  row,    \* the committed table
  cache,  \* _cache of each process
  req,    \* each administrator's request
  last,   \* the last call resolved
  ever    \* history: what each row has been

vars == <<row, cache, req, last, ever>>

Idle == [stage |-> "idle"]

\* flushed: the statement is sent, its row locked; reloaded: ready to commit.
Request ==
  [stage : {"flushed", "reloaded"}, process : Processes,
   alias : Aliases, value : Values \cup {Absent}]

Table == [Aliases -> Values \cup {Absent}]

Resolved ==
  [process : Processes, alias : Aliases,
   outcome : {"served", "disabled", "missing"}, value : Values \cup {Absent}]

TypeOK ==
  /\ row \in Table
  /\ cache \in [Processes -> Table]
  /\ req \in [Admins -> Request \cup {Idle}]
  /\ last \in Resolved \cup {Idle}
  /\ ever \in [Aliases -> SUBSET (Values \cup {Absent})]

\* Every process has started on an empty table.
Init ==
  /\ row = [a \in Aliases |-> Absent]
  /\ cache = [p \in Processes |-> row]
  /\ req = [w \in Admins |-> Idle]
  /\ last = Idle
  /\ ever = [a \in Aliases |-> {Absent}]

-----------------------------------------------------------------------------
Busy == {w \in Admins : req[w] # Idle}

\* MUTANT of Reloaded: the copy is made from the table as it will be.
ReloadedDirty(p) ==
  [cache EXCEPT ![p] =
     [a \in Aliases |->
        IF \E w \in Busy : req[w].alias = a
        THEN req[CHOOSE w \in Busy : req[w].alias = a].value
        ELSE row[a]]]

\* reload_cache
Reloaded(p) == [cache EXCEPT ![p] = row]

Unlocked(a) == a \notin {req[w].alias : w \in Busy}

\* create_model, update_model and delete_model up to their flush.  A second
\* request for the alias waits for the first one's lock.
Flush(w) ==
  /\ req[w] = Idle
  /\ \E p \in Processes, a \in Aliases, v \in Values \cup {Absent} :
        /\ Unlocked(a)
        /\ row[a] # v
        /\ req' = [req EXCEPT ![w] =
                     [stage |-> "flushed", process |-> p, alias |-> a, value |-> v]]
  /\ UNCHANGED <<row, cache, last, ever>>

ReloadCache(w) ==
  /\ w \in Busy
  /\ req[w].stage = "flushed"
  /\ cache' = Reloaded(req[w].process)
  /\ req' = [req EXCEPT ![w].stage = "reloaded"]
  /\ UNCHANGED <<row, last, ever>>

\* get_db commits once the handler has returned.
Commit(w) ==
  /\ w \in Busy
  /\ req[w].stage = "reloaded"
  /\ row' = [row EXCEPT ![req[w].alias] = req[w].value]
  /\ ever' = [ever EXCEPT ![req[w].alias] = @ \cup {req[w].value}]
  /\ req' = [req EXCEPT ![w] = Idle]
  /\ UNCHANGED <<cache, last>>

\* The flush, the reload or the commit raises: rolled back.
Rollback(w) ==
  /\ w \in Busy
  /\ req' = [req EXCEPT ![w] = Idle]
  /\ UNCHANGED <<row, cache, last, ever>>

\* The process starts again: its requests are lost, its copy is fresh, or
\* empty when the database cannot be read.
Restart(p) ==
  /\ req' = [w \in Admins |-> IF w \in Busy /\ req[w].process = p THEN Idle ELSE req[w]]
  /\ cache' \in {[cache EXCEPT ![p] = row], [cache EXCEPT ![p] = [a \in Aliases |-> Absent]]}
  /\ UNCHANGED <<row, last, ever>>

\* resolve: a miss reloads the copy; then 404, 403 or the entry.
Resolve(p, a) ==
  /\ cache' = IF cache[p][a] = Absent THEN Reloaded(p) ELSE cache
  /\ LET v == cache'[p][a]
     IN  last' = [process |-> p, alias |-> a, value |-> v,
                  outcome |-> CASE v = Absent -> "missing"
                                [] v \in EnabledIn -> "served"
                                [] OTHER -> "disabled"]
  /\ UNCHANGED <<row, req, ever>>

-----------------------------------------------------------------------------
Next ==
  \/ \E w \in Admins : Flush(w) \/ ReloadCache(w) \/ Commit(w) \/ Rollback(w)
  \/ \E p \in Processes : Restart(p)
  \/ \E p \in Processes, a \in Aliases : Resolve(p, a)

Spec == Init /\ [][Next]_vars

-----------------------------------------------------------------------------
(* Properties.                                                             *)

\* A call is never routed by a row that was rolled back, whichever process
\* serves it and whatever administrators are doing.
ServesCommittedOnly ==
  /\ \A p \in Processes, a \in Aliases : cache[p][a] \in ever[a]
  /\ last # Idle => last.value \in ever[last.alias]

\* An alias is reported missing only when the table does not have it, even by
\* a process that never heard of its creation.
MissingIsAbsent ==
  [][last' # last /\ last'.outcome = "missing" => row[last'.alias] = Absent]_vars
=============================================================================
