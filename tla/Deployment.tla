----------------------------- MODULE Deployment ------------------------------
(***************************************************************************)
(* What outlives a process: the YAML configuration file, which add-key and *)
(* remove-key rewrite (cli/main.py), and the rows in SQLite or Redis.      *)
(* Several processes share both: servers that load the file, initialize    *)
(* the store and then record what they serve, and commands that edit the   *)
(* file while they run.  Any of them may be killed anywhere.  "status" and *)
(* "metrics" load and initialize as "start" does, and exit: here they are  *)
(* servers that are killed as soon as they are up.                         *)
(*                                                                         *)
(* Of a row only the key values are kept whose use it accounts for.  What  *)
(* its counts do within one process is RequestEngine's.                    *)
(***************************************************************************)
EXTENDS Naturals, Sequences, FiniteSets

CONSTANTS
    Ids, Values,  \* key ids, and the keys themselves
    KeyNames,     \* key-1, key-2, ...: as many as a file has entries (a bound)
    InitialBase,  \* whether the file has upstream_base_url at the start
    InitialKeys,  \* the "keys" of the file at the start
    Additions,    \* what add-key may be called with
    Removals,     \* what remove-key may be called with
    Cuts,         \* what an entry that is cut off may read as
    Backends,     \* what config.storage.backend may be
    EnvBaseUrl,   \* whether a process may have POOLSWITCH_UPSTREAM_BASE_URL set
    EnvKeys,      \* what POOLSWITCH_KEYS may give a process, for the file's keys
    Servers,      \* processes that may run "start", one after the other or at once
    Editors,      \* processes that run add-key or remove-key once
    MaxStarts,    \* bound: starts of servers
    None

\* An entry of "keys", and what the file holds: upstream_base_url, and entries.
Entry == [id : Ids \union {None}, value : Values]
File  == [base : BOOLEAN, keys : Seq(Entry)]

Row   == [uses_of : SUBSET Values]
Fresh == [uses_of |-> {}]

ASSUME DeploymentAssumption ==
    /\ None \notin Ids \union Row \union File
    /\ KeyNames \in Seq(Ids)
    /\ \A i, j \in DOMAIN KeyNames : KeyNames[i] = KeyNames[j] => i = j
    /\ InitialKeys \in Seq(Entry) \ {<<>>}
    /\ Additions \subseteq [id : Ids, value : Values]
    /\ Len(InitialKeys) <= Len(KeyNames)
    /\ Removals \subseteq Ids
    /\ Cuts \subseteq Entry
    /\ \A keys \in EnvKeys : keys \in Seq(Entry) /\ Len(keys) <= Len(KeyNames)
    /\ Backends \subseteq {"sqlite", "redis"}
    /\ InitialBase \in BOOLEAN /\ EnvBaseUrl \in BOOLEAN
    /\ IsFiniteSet(Editors) /\ Servers \intersect Editors = {}
    /\ MaxStarts \in Nat

VARIABLES
    backend,   \* the store of this deployment: it never changes
    file,      \* what the file reads as, None where it cannot be read
    store,     \* the row of each id, None where there is none
    pc,        \* where each process is
    data,      \* what each editor writes
    touched,   \* the editors that write a file others have truncated or written since
    definitions,  \* KeyPool.definitions of each server: ids to values
    missing,   \* the ids each server has still to initialize
    at, row,   \* the id each server is at in the store, and the row it has read
    starts,
    edited,    \* history: the files complete edits have led to, from the first
    unseen,    \* history: the ids each server found without a row when it began to
               \* initialize, until it is up
    removed,   \* history: whether a remove-key has begun
    strayed    \* history: whether a server has started on other keys than complete
               \* edits led to

server  == <<definitions, missing, at, row>>
history == <<edited, removed, strayed>>
vars    == <<backend, file, store, pc, data, touched, server, starts, unseen, history>>

Goto(p, place) == pc' = [pc EXCEPT ![p] = place]

\* open("w") truncates; what yaml reads from an empty file counts as {}.
Truncated == [base |-> FALSE, keys |-> <<>>]

\* key_definitions names a key without an id by its position; of two keys with
\* one id the dict of KeyPool keeps the last.
Definitions(keys) ==
    LET id(i) == IF keys[i].id = None THEN KeyNames[i] ELSE keys[i].id
        last(i) == \A j \in DOMAIN keys : id(j) = id(i) => j <= i
    IN  [k \in {id(i) : i \in DOMAIN keys} |->
            keys[CHOOSE i \in DOMAIN keys : id(i) = k /\ last(i)].value]

\* What AppConfig may accept as the keys: upstream_base_url and POOLSWITCH_KEYS
\* may come from the environment.
Accepted ==
    IF file = None \/ ~ (file.base \/ EnvBaseUrl) THEN {}
    ELSE ({file.keys} \union EnvKeys) \ {<<>>}

NoKeys == [k \in {} |-> None]

Init ==
    /\ backend \in Backends
    /\ file = [base |-> InitialBase, keys |-> InitialKeys]
    /\ store = [k \in Ids |-> None]
    /\ pc = [p \in Servers \union Editors |-> "down"]
    /\ data = [e \in Editors |-> Truncated]
    /\ touched = {}
    /\ definitions = [s \in Servers |-> NoKeys]
    /\ missing = [s \in Servers |-> {}]
    /\ at = [s \in Servers |-> None]
    /\ row = [s \in Servers |-> None]
    /\ starts = 0
    /\ edited = {file}
    /\ unseen = [s \in Servers |-> {}]
    /\ removed = FALSE /\ strayed = FALSE

-----------------------------------------------------------------------------
(* Servers: load, initialize, serve *)

\* An invalid file ends the command; a valid one gives the pool its definitions.
Load(s) ==
    /\ pc[s] = "down" /\ starts < MaxStarts
    /\ starts' = starts + 1
    /\ \/ /\ ~ (file # None /\ file.base /\ file.keys # <<>>)
          /\ UNCHANGED <<pc, server, unseen, strayed>>
       \/ \E keys \in Accepted :
          /\ definitions' = [definitions EXCEPT ![s] = Definitions(keys)]
          /\ missing' = [missing EXCEPT ![s] = DOMAIN Definitions(keys)]
          /\ unseen' = [unseen EXCEPT ![s] = {k \in missing'[s] : store[k] = None}]
          /\ strayed' = (strayed \/ \A f \in edited : f.keys # keys)
          /\ Goto(s, "initialize")
          /\ UNCHANGED <<at, row>>
    /\ UNCHANGED <<backend, file, store, data, touched, edited, removed>>

\* Mutated form: INSERT OR REPLACE.
ReplaceRows(s) ==
    /\ backend = "sqlite" /\ pc[s] = "initialize" /\ missing[s] # {}
    /\ store' = [k \in Ids |-> IF k \in missing[s] THEN Fresh ELSE store[k]]
    /\ missing' = [missing EXCEPT ![s] = {}]
    /\ UNCHANGED <<backend, file, pc, data, touched, definitions, at, row, starts, unseen, history>>

\* SQLite: INSERT ... ON CONFLICT DO NOTHING for all the keys, in one transaction.
InsertRows(s) ==
    /\ backend = "sqlite" /\ pc[s] = "initialize" /\ missing[s] # {}
    /\ store' = [k \in Ids |-> IF k \in missing[s] /\ store[k] = None THEN Fresh ELSE store[k]]
    /\ missing' = [missing EXCEPT ![s] = {}]
    /\ UNCHANGED <<backend, file, pc, data, touched, definitions, at, row, starts, unseen, history>>

\* Redis: EXISTS, and in another call SET, key by key.
Exists(s) ==
    /\ backend = "redis" /\ pc[s] = "initialize" /\ at[s] = None
    /\ \E k \in missing[s] :
          \/ store[k] # None /\ missing' = [missing EXCEPT ![s] = @ \ {k}] /\ UNCHANGED at
          \/ store[k] = None /\ at' = [at EXCEPT ![s] = k] /\ UNCHANGED missing
    /\ UNCHANGED <<backend, file, store, pc, data, touched, definitions, row, starts, unseen, history>>

SetRow(s) ==
    /\ pc[s] = "initialize" /\ at[s] # None
    /\ store' = [store EXCEPT ![at[s]] = Fresh]
    /\ missing' = [missing EXCEPT ![s] = @ \ {at[s]}]
    /\ at' = [at EXCEPT ![s] = None]
    /\ UNCHANGED <<backend, file, pc, data, touched, definitions, row, starts, unseen, history>>

\* Mutated form: the rows are left to be made later.
UpAtOnce(s) ==
    /\ pc[s] = "initialize" /\ at[s] = None
    /\ Goto(s, "up")
    /\ unseen' = [unseen EXCEPT ![s] = {}]
    /\ UNCHANGED <<backend, file, store, data, touched, server, starts, history>>

\* KeyPool.initialize then lists the rows and makes those that are missing: none
\* is, for no process ever deletes one.
Up(s) ==
    /\ pc[s] = "initialize" /\ missing[s] = {} /\ at[s] = None
    /\ Goto(s, "up")
    /\ unseen' = [unseen EXCEPT ![s] = {}]
    /\ UNCHANGED <<backend, file, store, data, touched, server, starts, history>>

\* record_success: get_state, and in another call upsert_state.
GetState(s) ==
    /\ pc[s] = "up"
    /\ \E k \in DOMAIN definitions[s] :
          /\ store[k] # None
          /\ at' = [at EXCEPT ![s] = k]
          /\ row' = [row EXCEPT ![s] = [uses_of |-> store[k].uses_of \union {definitions[s][k]}]]
    /\ Goto(s, "record")
    /\ UNCHANGED <<backend, file, store, data, touched, definitions, missing, starts, unseen, history>>

UpsertState(s) ==
    /\ pc[s] = "record"
    /\ store' = [store EXCEPT ![at[s]] = row[s]]
    /\ at' = [at EXCEPT ![s] = None]
    /\ row' = [row EXCEPT ![s] = None]
    /\ Goto(s, "up")
    /\ UNCHANGED <<backend, file, data, touched, definitions, missing, starts, unseen, history>>

\* Mutated form: what the server was doing to the store is not over.
ExitRecording(s) ==
    /\ pc[s] # "down"
    /\ Goto(s, "down")
    /\ definitions' = [definitions EXCEPT ![s] = NoKeys]
    /\ missing' = [missing EXCEPT ![s] = {}]
    /\ unseen' = [unseen EXCEPT ![s] = {}]
    /\ UNCHANGED <<backend, file, store, data, touched, at, row, starts, history>>

\* A server is stopped or killed, a status command has ended.
Exit(s) ==
    /\ pc[s] # "down"
    /\ Goto(s, "down")
    /\ definitions' = [definitions EXCEPT ![s] = NoKeys]
    /\ missing' = [missing EXCEPT ![s] = {}]
    /\ at' = [at EXCEPT ![s] = None]
    /\ row' = [row EXCEPT ![s] = None]
    /\ unseen' = [unseen EXCEPT ![s] = {}]
    /\ UNCHANGED <<backend, file, store, data, touched, starts, history>>

-----------------------------------------------------------------------------
(* Editors: read, change, truncate, write.  Ids are compared with those the *)
(* file gives, not with names by position.  A file that cannot be read ends  *)
(* the command.                                                              *)

Edited(e, keys) ==
    /\ pc[e] = "down"
    /\ data' = [data EXCEPT ![e] = [file EXCEPT !.keys = keys]]
    /\ edited' = IF file \in edited THEN edited \union {[file EXCEPT !.keys = keys]} ELSE edited
    /\ Goto(e, "open")
    /\ UNCHANGED <<backend, file, store, touched, server, starts, unseen, strayed>>

\* Mutated form: the new key comes first.
add_key_in_front(e) ==
    \E a \in Additions :
        /\ file # None /\ Len(file.keys) < Len(KeyNames)
        /\ \A i \in DOMAIN file.keys : file.keys[i].id # a.id
        /\ Edited(e, <<a>> \o file.keys)
        /\ UNCHANGED removed

\* "Key id already exists" ends the command with nothing done.
add_key(e) ==
    \E a \in Additions :
        /\ file # None /\ Len(file.keys) < Len(KeyNames)
        /\ \A i \in DOMAIN file.keys : file.keys[i].id # a.id
        /\ Edited(e, Append(file.keys, a))
        /\ UNCHANGED removed

\* The entries but those with the id k, in their order.
Others(keys, k) ==
    LET kept[n \in 0 .. Len(keys)] ==
            IF n = 0 THEN <<>>
            ELSE IF keys[n].id = k THEN kept[n - 1] ELSE Append(kept[n - 1], keys[n])
    IN  kept[Len(keys)]

\* So does "Key id not found".
remove_key(e) ==
    \E k \in Removals :
        /\ file # None
        /\ \E i \in DOMAIN file.keys : file.keys[i].id = k
        /\ Edited(e, Others(file.keys, k))
        /\ removed' = TRUE /\ UNCHANGED strayed

Writing == {e \in Editors : pc[e] = "write"}

\* Who is still writing writes from now on into a file that is not as it left it.
Touch(e) == touched' = touched \union (Writing \ {e})

Open(e) ==
    /\ pc[e] = "open"
    /\ file' = Truncated
    /\ Touch(e)
    /\ Goto(e, "write")
    /\ UNCHANGED <<backend, store, data, server, starts, unseen, history>>

\* The first entries of a file, and maybe one that is cut off.
Heads(f) ==
    {SubSeq(f.keys, 1, n) : n \in 0 .. Len(f.keys)}
    \union {Append(SubSeq(f.keys, 1, n), cut) : n \in 0 .. Len(f.keys) - 1, cut \in Cuts}

Tails(f) == {SubSeq(f.keys, n, Len(f.keys)) : n \in 1 .. Len(f.keys) + 1}

\* What the file may read as with the beginning of f's text, and then the end of
\* g's.  upstream_base_url may stand before the keys or behind them.
Torn(f, g) ==
    LET Read == {[base |-> b, keys |-> h \o t] :
                    b \in {FALSE, f.base, g.base}, h \in Heads(f), t \in Tails(g)}
    IN  {None} \union {r \in Read : Len(r.keys) <= Len(KeyNames)}

\* The text is written through a buffer, from where the editor's last write ended:
\* alone, it grows; else texts run into each other.
HalfWritten(e) ==
    IF e \notin touched THEN Torn(data[e], Truncated)
    ELSE UNION {Torn(data[e], data[d]) \union Torn(data[d], data[e]) :
                   d \in {c \in Editors \ {e} : pc[c] \in {"write", "done", "killed"}}}

Flush(e) ==
    /\ pc[e] = "write"
    /\ file' \in HalfWritten(e)
    /\ Touch(e)
    /\ UNCHANGED <<backend, store, pc, data, server, starts, unseen, history>>

\* The last of it is written, and the file closed.
Write(e) ==
    /\ pc[e] = "write"
    /\ file' = data[e] \/ (e \in touched /\ file' \in HalfWritten(e))
    /\ Touch(e)
    /\ Goto(e, "done")
    /\ UNCHANGED <<backend, store, data, server, starts, unseen, history>>

\* An editor is killed, or its disk is full; the file stays as it is.
Killed(e) ==
    /\ pc[e] \in {"open", "write"}
    /\ Goto(e, "killed")
    /\ UNCHANGED <<backend, file, store, data, touched, server, starts, unseen, history>>

-----------------------------------------------------------------------------
Next ==
    \/ \E s \in Servers :
          \/ Load(s) \/ InsertRows(s) \/ Exists(s) \/ SetRow(s) \/ Up(s)
          \/ GetState(s) \/ UpsertState(s) \/ Exit(s)
    \/ \E e \in Editors : add_key(e) \/ remove_key(e) \/ Open(e) \/ Flush(e) \/ Write(e) \/ Killed(e)

Spec == Init /\ [][Next]_vars

-----------------------------------------------------------------------------
FileTyped ==
    /\ backend \in Backends
    /\ file \in File \union {None}
    /\ data \in [Editors -> File]
    /\ touched \in SUBSET Editors
    /\ edited \in SUBSET File
    /\ removed \in BOOLEAN /\ strayed \in BOOLEAN

ServersTyped ==
    /\ DOMAIN definitions = Servers
    /\ \A s \in Servers :
          /\ DOMAIN definitions[s] \subseteq Ids
          /\ definitions[s] \in [DOMAIN definitions[s] -> Values]
    /\ missing \in [Servers -> SUBSET Ids]
    /\ at \in [Servers -> Ids \union {None}]
    /\ row \in [Servers -> Row \union {None}]
    /\ \A s \in Servers : at[s] # None => pc[s] \in {"initialize", "record"}
    /\ \A s \in Servers : row[s] # None <=> pc[s] = "record"
    /\ starts \in Nat
    /\ unseen \in [Servers -> SUBSET Ids]

\* The type invariant.
TypeOK ==
    /\ pc \in [Servers \union Editors ->
                {"down", "initialize", "up", "record", "open", "write", "done", "killed"}]
    /\ store \in [Ids -> Row \union {None}]
    /\ FileTyped
    /\ ServersTyped

Used(rows, k) == rows[k] \notin {None, Fresh}

\* What has been recorded of a key survives.  On SQLite no process takes a row back
\* to its beginning, one that starts, crashes in the middle of initialize, or prints
\* the status beside a running server.  On Redis only a process that began when the
\* row was not there can: initialize tests and sets in two calls, so that two first
\* starts may overlap, but no later one does harm (sqlite_store.py:39-57,
\* redis_store.py:29-34).
UsedRowsStay ==
    [][ \A k \in Ids : Used(store, k) /\ ~ Used(store', k) =>
          /\ backend = "redis"
          /\ \E s \in Servers : at[s] = k /\ k \in unseen[s] ]_vars

\* A server that serves finds the row of each of its keys, whatever other
\* configurations other processes have started with (key_pool.py:31-36, where
\* get_state would raise KeyError otherwise).
ServersHaveRows ==
    \A s \in Servers : pc[s] \in {"up", "record"} =>
        \A k \in DOMAIN definitions[s] : store[k] # None

\* The keys that have had the name k, if no key is removed: the one the first file
\* gives it, and those that are added under it.  Two, where add-key is given an id
\* that stands for a key without one: it tests only the ids that are written.
Owners(k) ==
    {Definitions(InitialKeys)[n] : n \in DOMAIN Definitions(InitialKeys) \intersect {k}}
    \union {a.value : a \in {b \in Additions : b.id = k}}

\* As long as no key is removed, and no server has started on a half-written file or
\* on POOLSWITCH_KEYS, a row stays with its key: adding keys, losing an added one to
\* another edit, and starting over leave the names that stand for positions where
\* they are (config.py:30-37, 64-65; cli/main.py:108-125).
AddingRenamesNothing ==
    ~ removed /\ ~ strayed =>
        \A k \in Ids : store[k] # None => store[k].uses_of \subseteq Owners(k)

\* cli/main.py:114 on add-key: "Persist a new key into the YAML config."  Once the
\* commands have ended, and none was killed or has removed a key, it is there.
AddedKeysPersist ==
    ~ removed /\ (\A e \in Editors : pc[e] \in {"down", "done"}) =>
        \A e \in Editors : pc[e] = "done" =>
            /\ file # None
            /\ \E i \in DOMAIN file.keys : file.keys[i] = data[e].keys[Len(data[e].keys)]
=============================================================================
