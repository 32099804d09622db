---------------------------- MODULE EmergencyStop ----------------------------
(***************************************************************************)
(* Emergency stops (N.11): EmergencyStopService and its JSON repository.   *)
(*                                                                         *)
(* The repository keeps every record in memory and writes all of them to   *)
(* one file at each save; it reads the file when the process starts.  Each *)
(* of its operations holds its lock; activate_stop and deactivate_stop are *)
(* a read and a save, and other threads come in between.  A record's id is *)
(* made of its scope, its target and the second of its activation.         *)
(*                                                                         *)
(* A call of somebody without the permission leaves no trace.              *)
(***************************************************************************)
EXTENDS Governance, FiniteSets

CONSTANTS
    Operators,  \* threads that activate and deactivate stops
    Scopes,     \* those of EmergencyStopScope that are in use
    Rank,       \* the precedence of each scope, "GLOBAL" first
    Targets,    \* what stops of each scope may be for; None is for all
    Actions,    \* what may be asked to be executed
    Subject,    \* the target of an action in each scope, None when it has none
    ReadOnly,   \* actions that only read
    MaxStops,   \* bound: records on file
    Lenience,   \* bound: the values of allow_read_only that stops are asked for with
    Garbled     \* a file that cannot be read, or whose checksums are wrong

VARIABLES
    records,    \* the records in memory, by id
    disk,       \* the file
    corrupt,    \* is_corrupt
    op,         \* what each operator's call is about to save
    \* history, read by the properties only
    promised,   \* stops activate_stop answered with, that nobody deactivated since
    excused     \* promised stops the service may have lost

stopVars == <<records, disk, corrupt, op, promised, excused>>

Ids == UNION {[scope : {s}, target : Targets[s] \cup {None}, at : Times] : s \in Scopes}

Stops == [state : {"ACTIVE", "INACTIVE"}, readOnly : BOOLEAN, until : Expiries]

Stores == [Ids -> Stops \cup {None}]

Promises == [id : Ids, until : Expiries]

Waiting == [id |-> None, stop |-> None]

ASSUME StopAssumption ==
    /\ "GLOBAL" \in Scopes => Targets["GLOBAL"] = {}
    /\ Rank \in [Scopes -> Nat]
    /\ ReadOnly \subseteq Actions /\ Lenience \subseteq BOOLEAN
    /\ None \notin Ids \cup Stops
    /\ Garbled \notin Stores

StopTypeOK ==
    /\ records \in Stores
    /\ disk \in Stores \cup {Garbled}
    /\ corrupt \in BOOLEAN
    /\ op \in [Operators -> {Waiting} \cup [id : Ids, stop : Stops]]
    /\ promised \subseteq Promises
    /\ excused \subseteq promised

StopInit ==
    /\ records = [i \in Ids |-> None]
    /\ disk = records
    /\ corrupt = FALSE
    /\ op = [o \in Operators |-> Waiting]
    /\ promised = {}
    /\ excused = {}

-----------------------------------------------------------------------------
(* What an active stop covers, and what evaluate decides                   *)

Active(i) ==
    records[i] # None /\ records[i].state = "ACTIVE" /\ now < records[i].until

Covers(i, a) ==
    \/ i.scope = "GLOBAL"
    \/ Subject[a][i.scope] # None /\ i.target \in {None, Subject[a][i.scope]}

Applicable(a) == {i \in Ids : Active(i) /\ Covers(i, a)}

\* The stops of the highest scope that has one, the oldest of them; names order
\* those of one second.
Applied(a) ==
    {i \in Applicable(a) : \A j \in Applicable(a) :
        Rank[i.scope] < Rank[j.scope] \/ (i.scope = j.scope /\ i.at <= j.at)}

\* Wrong on purpose: a record of one target only ever matches that target.
PassesUnlessNamed(a) ==
    /\ ~corrupt
    /\ \/ {i \in Applicable(a) : i.target # None} = {}
       \/ a \in ReadOnly /\ \E i \in Applied(a) : records[i].readOnly

Passes(a) ==
    /\ ~corrupt
    /\ \/ Applicable(a) = {}
       \/ a \in ReadOnly /\ \E i \in Applied(a) : records[i].readOnly

-----------------------------------------------------------------------------
(* activate_stop and deactivate_stop                                       *)

Promise(i, stop) == [id |-> i, until |-> stop.until]

Kept(store, p) ==
    store[p.id] # None /\ store[p.id].state = "ACTIVE" /\ store[p.id].until = p.until

BeingDeactivated(i) == \E o \in Operators : op[o].id = i /\ op[o].stop.state = "INACTIVE"

\* A stop of the scope, for the same target or, when all are asked for, any.
Identical(i, scope, target, readOnly) ==
    /\ Active(i)
    /\ i.scope = scope /\ target \in {None, i.target}
    /\ records[i].readOnly = readOnly

\* A stop that is active already is the answer.
AnswerWithExisting(scope, target, readOnly) ==
    /\ \E i \in Ids :
        LET promise == Promise(i, records[i])
        IN  /\ Identical(i, scope, target, readOnly)
            /\ promised' = promised \cup {promise}
            /\ excused' = IF BeingDeactivated(i) THEN excused \cup {promise} ELSE excused
    /\ UNCHANGED <<records, disk, corrupt, op>>

\* The new record, to be saved.
Activate(o, scope, target, readOnly, until) ==
    LET id == [scope |-> scope, target |-> target, at |-> now]
        stop == [state |-> "ACTIVE", readOnly |-> readOnly, until |-> until]
    IN  /\ op[o] = Waiting
        /\ \A i \in Ids : ~Identical(i, scope, target, readOnly)
        /\ op' = [op EXCEPT ![o] = [id |-> id, stop |-> stop]]
        /\ UNCHANGED <<records, disk, corrupt, promised, excused>>

\* An inactive record is the answer; an active one, expired or not, is copied.
Deactivate(o, i) ==
    /\ op[o] = Waiting
    /\ records[i] # None /\ records[i].state = "ACTIVE"
    /\ op' = [op EXCEPT ![o] = [id |-> i, stop |-> [records[i] EXCEPT !.state = "INACTIVE"]]]
    /\ promised' = {p \in promised : p.id # i}
    /\ excused' = {p \in excused : p.id # i}
    /\ UNCHANGED <<records, disk, corrupt>>

\* Memory first, then the file.  A record of the same id is replaced, and a
\* repository that could not read its file writes over it.
Save(o) ==
    LET i == op[o].id
        stop == op[o].stop
        others == {p \in promised : corrupt \/ (p.id = i /\ p # Promise(i, stop))}
    IN  /\ op[o] # Waiting
        /\ records[i] # None \/ Cardinality({j \in Ids : records[j] # None}) < MaxStops
        /\ records' = [records EXCEPT ![i] = stop]
        /\ op' = [op EXCEPT ![o] = Waiting]
        /\ disk' = records'
        /\ IF stop.state = "ACTIVE"
           THEN /\ promised' = promised \cup {Promise(i, stop)}
                /\ excused' = excused \cup others \cup
                     (IF BeingDeactivated(i) THEN {Promise(i, stop)} ELSE {})
           ELSE /\ excused' = excused \cup {p \in promised : corrupt}
                /\ UNCHANGED promised
        /\ UNCHANGED <<corrupt, faults>>

\* The file is not written, and the call raises.
SaveInMemory(o) ==
    LET i == op[o].id
        stop == op[o].stop
    IN  /\ op[o] # Waiting
        /\ records[i] # None \/ Cardinality({j \in Ids : records[j] # None}) < MaxStops
        /\ Fault
        /\ records' = [records EXCEPT ![i] = stop]
        /\ op' = [op EXCEPT ![o] = Waiting]
        /\ excused' = excused \cup {p \in promised : p.id = i /\ p # Promise(i, stop)}
        /\ UNCHANGED <<disk, corrupt, promised>>

-----------------------------------------------------------------------------
(* The file and the process                                                *)

\* The file is damaged, or cut to nothing.
Damage ==
    /\ Fault
    /\ disk' \in {Garbled, [i \in Ids |-> None]}
    /\ UNCHANGED <<records, corrupt, op, promised, excused>>

\* Wrong on purpose: a file that cannot be read counts as one without stops.
RestartStopsTrusting ==
    /\ corrupt' = FALSE
    /\ records' = IF disk = Garbled THEN [i \in Ids |-> None] ELSE disk
    /\ op' = [o \in Operators |-> Waiting]
    /\ excused' = excused \cup {p \in promised : disk # Garbled /\ ~Kept(disk, p)}
    /\ UNCHANGED <<disk, promised>>

\* The process starts again with what is on file.
RestartStops ==
    /\ corrupt' = (disk = Garbled)
    /\ records' = IF disk = Garbled THEN [i \in Ids |-> None] ELSE disk
    /\ op' = [o \in Operators |-> Waiting]
    /\ excused' = excused \cup {p \in promised : disk # Garbled /\ ~Kept(disk, p)}
    /\ UNCHANGED <<disk, promised>>

-----------------------------------------------------------------------------
OperatorStep(o) ==
    \/ \E scope \in Scopes : \E target \in Targets[scope] \cup {None} :
        \E readOnly \in Lenience :
            \/ op[o] = Waiting /\ AnswerWithExisting(scope, target, readOnly)
            \/ \E until \in {now + 1, Never} : Activate(o, scope, target, readOnly, until)
    \/ \E i \in Ids : Deactivate(o, i)

\* The operators and the faults; the clock and the restart are the process's.
StopStep ==
    \/ \E o \in Operators :
        (OperatorStep(o) /\ UNCHANGED faults) \/ Save(o) \/ SaveInMemory(o)
    \/ Damage

StopNext ==
    \/ StopStep /\ UNCHANGED now
    \/ Fault /\ RestartStops /\ UNCHANGED now
    \/ Tick /\ UNCHANGED <<faults, stopVars>>

StopsOnlyInit == GovernanceInit /\ StopInit

StopSpec == StopsOnlyInit /\ [][StopNext]_<<now, faults, stopVars>>

-----------------------------------------------------------------------------
\* A stop that an operator was told of is in force until it is deactivated or
\* expires: in memory or, when the file could not be read, by blocking all.  It may
\* be lost only when it was found while being deactivated, was replaced by one of
\* the same second, was not on file at a restart, or was on a file that could not
\* be read and was then written over.
PromisedIsInForce ==
    \A p \in promised \ excused : corrupt \/ Kept(records, p)

\* What is then in memory is on file as well as long as nothing failed: a crash alone
\* loses no stop.
PromisedIsOnFile ==
    faults = 0 => \A p \in promised \ excused : disk # Garbled /\ Kept(disk, p)
=============================================================================
