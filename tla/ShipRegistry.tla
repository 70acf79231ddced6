----------------------------- MODULE ShipRegistry -----------------------------
(***************************************************************************)
(* The ships API of SecureShip. FastAPI runs every handler in a worker     *)
(* thread of its own, so requests interleave at each datastore call: one   *)
(* for a page of a scan, one for get_item, put_item or delete_item. With   *)
(* DynamoDB a call may be tried again by botocore, may take effect and     *)
(* still be reported as failed, and a read may be served by a replica that *)
(* lags. Without a table the handlers work on the _LOCAL_SHIPS dictionary, *)
(* which threads share without a lock.                                     *)
(*                                                                         *)
(* Validation, API keys and rate limits come before these calls, and the   *)
(* cutting of a listing into limit/offset pages after them.                *)
(***************************************************************************)
EXTENDS Naturals, FiniteSets

CONSTANTS
    Ships,        \* ship ids
    Fields,       \* the fields of a ship other than its id, "status" among them
    Values,       \* what a field may hold
    Keep,         \* in an update: the field is left alone (None in ShipUpdate)
    NoShip,       \* no item is stored under this id
    Requests,     \* worker threads, each serving one request at a time
    MayDo,        \* MayDo[r]: the operations that r serves
    Created,      \* the ships that clients create
    Updates,      \* what clients ask updates for
    Storages,     \* "dynamodb", or "local" when DYNAMODB_TABLE is not set
    Sample,       \* the sample ships of _LOCAL_SHIPS
    MaxScanPages, \* MAX_SCAN_PAGES
    MaxAttempts   \* retries.max_attempts of the botocore configuration: tries after the first

Docs == [Fields -> Values]
Changes == [Fields -> Values \cup {Keep}]
WriteOps == {"create", "update", "delete"}
Operations == {"list", "get"} \cup WriteOps

(* What ?status= lets through; without it, everything. *)
Filters == {Docs} \cup {{d \in Docs : d["status"] = v} : v \in Values}

ASSUME ShipAssumption ==
    /\ "status" \in Fields
    /\ Keep \notin Values /\ NoShip \notin Docs /\ NoShip \notin Ships
    /\ MayDo \in [Requests -> SUBSET Operations]
    /\ Created \subseteq Docs /\ Updates \subseteq Changes
    /\ Storages \subseteq {"dynamodb", "local"}
    /\ Sample \in [Ships -> Docs \cup {NoShip}]
    /\ MaxScanPages \in Nat \ {0} /\ MaxAttempts \in Nat

VARIABLES
    storage, \* where the ships are kept, fixed when the process starts
    store,   \* the table, as writes leave it
    replica, \* the table, as an eventually consistent read may still see it
    req,     \* per thread: the request it serves, or the last one it answered
    (* History of the request that a thread is serving. *)
    seen,    \* what each ship has been in the table since it arrived
    lag,     \* and in a replica behind it, as long as the request was reading
    alone    \* no other request to write the same ship has run beside it

registry == <<storage, store, replica, req, seen, lag, alone>>

Calls == {"scan", "get", "put", "delete", "del_local"}

RegistryTypeOK ==
    /\ storage \in Storages
    /\ store \in [Ships -> Docs \cup {NoShip}]
    /\ replica \in [Ships -> Docs \cup {NoShip}]
    /\ req \in [Requests ->
           [op : Operations, ship : Ships \cup {NoShip}, change : Changes,
            want : Filters,                        \* the status filter of a list
            pc : Calls \cup {"idle"},
            found : Docs \cup {NoShip},            \* existing, as get_item read it
            items : [Ships -> SUBSET Docs],        \* the listing so far
            rest : SUBSET Ships,                   \* ships behind the scan's cursor
            pages : 0 .. MaxScanPages,
            tries : 0 .. MaxAttempts,
            answer : {0, 200, 404, 500, 503}]]     \* 0: none yet
    /\ seen \in [Requests -> [Ships -> SUBSET (Docs \cup {NoShip})]]
    /\ lag \in [Requests -> [Ships -> SUBSET (Docs \cup {NoShip})]]
    /\ alone \in [Requests -> BOOLEAN]

NoItems == [s \in Ships |-> {}]
NoChange == [f \in Fields |-> Keep]

(* An empty table, or the sample ships. *)
RegistryInit ==
    /\ storage \in Storages
    /\ store = IF storage = "local" THEN Sample ELSE [s \in Ships |-> NoShip]
    /\ replica = store
    /\ req = [r \in Requests |->
           [op |-> "list", ship |-> NoShip, change |-> NoChange, want |-> Docs,
            pc |-> "idle", found |-> NoShip, items |-> NoItems, rest |-> {},
            pages |-> 0, tries |-> 0, answer |-> 0]]
    /\ seen = [r \in Requests |-> NoItems] /\ lag = seen
    /\ alone = [r \in Requests |-> FALSE]

-----------------------------------------------------------------------------
(* What the handlers are made of. *)

Read == UNCHANGED <<storage, store, replica>>

(* {**updates, **existing} *)
ExistingWins(ship, change) == ship

(* {**existing, **{k: v for k, v in updates if v is not None}} *)
Merge(ship, change) == [f \in Fields |-> IF change[f] = Keep THEN ship[f] ELSE change[f]]

Written(r) == IF req[r].op = "create" THEN req[r].change ELSE Merge(req[r].found, req[r].change)

Store(s, what) ==
    /\ store' = [store EXCEPT ![s] = what]
    /\ UNCHANGED storage
    /\ IF storage = "local" THEN replica' = store' ELSE UNCHANGED replica

(* The handler returns, and forgets what it worked on. *)
Answer(r, status) ==
    req' = [req EXCEPT ![r] = [@ EXCEPT !.pc = "idle", !.change = NoChange, !.found = NoShip,
                                        !.tries = 0, !.answer = status]]
Call(r, pc) == req' = [req EXCEPT ![r].pc = pc, ![r].tries = 0]

(* result.get("Item") *)
Item(copy, s) == copy[s]

(* raise DataStoreUnavailable, which the exception handler turns into a 503. *)
AnswerNothing(r) == Answer(r, IF req[r].pc = "get" THEN 404 ELSE 200)
Unavailable(r) == Answer(r, 503)

LastTry(r) == req[r].tries = MaxAttempts

(* The scan goes on while DynamoDB returns a LastEvaluatedKey, up to the cap. *)
ForgetPage(r) == req[r].pages
CountPage(r) == req[r].pages + 1
NoCap(r, moreKeys) == moreKeys
FollowCursor(r, moreKeys) == moreKeys /\ CountPage(r) < MaxScanPages

-----------------------------------------------------------------------------
FirstCall(op) ==
    CASE op = "list" -> "scan" [] op = "create" -> "put" [] OTHER -> "get"

(* What a request brings: the id in its path, its body, its query. *)
ShipOf(op) == IF op = "list" THEN {NoShip} ELSE Ships
Body(op) == CASE op = "create" -> Created [] op = "update" -> Updates [] OTHER -> {NoChange}
Query(op) == IF op = "list" THEN Filters ELSE {Docs}

(* A request arrives; the handler makes its first call. *)
Start(r) ==
    /\ req[r].pc = "idle"
    /\ \E op \in MayDo[r] : \E s \in ShipOf(op), change \in Body(op), want \in Query(op) :
           req' = [req EXCEPT ![r] =
               [op |-> op, ship |-> s, change |-> change, want |-> want,
                pc |-> FirstCall(op), found |-> NoShip, items |-> NoItems,
                rest |-> IF op = "list" THEN Ships ELSE {}, pages |-> 0,
                tries |-> 0, answer |-> 0]]
    /\ UNCHANGED <<storage, store, replica>>

(* db_list_ships: one scan() call. DynamoDB reads on from the cursor for up to
   1 MB, however many items that is, applies the filter, and says whether there
   may be more. The dictionary is read in one go. *)
Listing(r, page, lagging) ==
    [s \in Ships |-> req[r].items[s] \cup
        IF s \in page THEN {IF s \in lagging THEN replica[s] ELSE store[s]} \cap req[r].want
        ELSE {}]

ReadPage(r, page, lagging, more) ==
    req' = [req EXCEPT ![r].items = Listing(r, page, lagging), ![r].rest = @ \ page,
                       ![r].pages = CountPage(r), ![r].tries = 0,
                       ![r].pc = IF more THEN "scan" ELSE "idle",
                       ![r].answer = IF more THEN 0 ELSE 200]

ScanPage(r) ==
    /\ req[r].pc = "scan"
    /\ \E page, lagging \in SUBSET req[r].rest, moreKeys \in BOOLEAN :
        /\ lagging \subseteq page
        /\ page # req[r].rest => moreKeys
        /\ storage = "local" => ~moreKeys
        /\ ReadPage(r, page, lagging, FollowCursor(r, moreKeys))
    /\ Read

(* db_get_ship, the whole of GET and the first half of PUT and DELETE. *)
Found(r, got) ==
    LET next == CASE req[r].op = "update" -> "put"
                  [] req[r].op = "delete" -> "delete"
                  [] OTHER -> "idle"
    IN req' = [req EXCEPT ![r] = [@ EXCEPT !.found = got, !.tries = 0, !.pc = next,
                                    !.answer = IF next = "idle" THEN 200 ELSE 0]]

GetItem(r) ==
    /\ req[r].pc = "get"
    /\ \E copy \in {store, replica} :
        LET got == Item(copy, req[r].ship) IN
        IF got = NoShip THEN Answer(r, 404) ELSE Found(r, got)
    /\ Read

(* db_put_ship: put_item without a condition, so an upsert. *)
PutItem(r) ==
    /\ req[r].pc = "put"
    /\ Store(req[r].ship, Written(r))
    /\ Answer(r, 200)

(* db_delete_ship with a table. *)
DeleteItem(r) ==
    /\ req[r].pc = "delete" /\ storage = "dynamodb"
    /\ Store(req[r].ship, NoShip)
    /\ Answer(r, 200)

(* db_delete_ship on the dictionary is a membership test, then del. delete_ship
   answers 200 whichever way the test goes. *)
CheckLocal(r) ==
    /\ req[r].pc = "delete" /\ storage = "local"
    /\ IF store[req[r].ship] = NoShip THEN Answer(r, 200) ELSE Call(r, "del_local")
    /\ Read

DelLocal(r) ==
    /\ req[r].pc = "del_local"
    /\ IF store[req[r].ship] = NoShip
       THEN Answer(r, 500) /\ Read  \* KeyError
       ELSE Store(req[r].ship, NoShip) /\ Answer(r, 200)

(* An attempt fails: a timeout, throttling, no credentials. A write may have
   taken effect all the same. botocore tries again before it raises. *)
AttemptFails(r) ==
    /\ req[r].pc \in {"scan", "get", "put", "delete"} /\ storage = "dynamodb"
    /\ \/ Read
       \/ req[r].pc = "put" /\ Store(req[r].ship, Written(r))
       \/ req[r].pc = "delete" /\ Store(req[r].ship, NoShip)
    /\ IF LastTry(r) THEN Unavailable(r) ELSE req' = [req EXCEPT ![r].tries = @ + 1]

(* DynamoDB: a write reaches the replica that serves the next reads. *)
Replicate(s) ==
    /\ replica[s] # store[s]
    /\ replica' = [replica EXCEPT ![s] = store[s]]
    /\ UNCHANGED <<storage, store, req>>

Serve(r) ==
    \/ ScanPage(r) \/ GetItem(r) \/ PutItem(r) \/ DeleteItem(r)
    \/ CheckLocal(r) \/ DelLocal(r) \/ AttemptFails(r)

Concerns(r) == IF req[r].op = "list" THEN Ships ELSE {req[r].ship}
Running(r) == req[r].pc # "idle"
Reading(r) == req[r].pc \in {"scan", "get"}
Writing(r, s) == Running(r) /\ req[r].op \in WriteOps /\ req[r].ship = s

(* What a replica shows of a ship, if it is behind. *)
Behind(s) == IF replica[s] = store[s] THEN {} ELSE {replica[s]}

(* The history that a step leaves. It ends with the request. *)
Remember ==
    /\ seen' = [r \in Requests |-> [s \in Ships |->
           IF Running(r)' /\ s \in Concerns(r)' THEN seen[r][s] \cup {store'[s]} ELSE {}]]
    /\ lag' = [r \in Requests |-> [s \in Ships |->
           IF Running(r)' /\ s \in Concerns(r)'
           THEN lag[r][s] \cup IF Reading(r)' THEN Behind(s)' ELSE {}
           ELSE {}]]
    /\ alone' = [r \in Requests |->
           /\ Running(r)' /\ (Running(r) => alone[r])
           /\ \A q \in Requests \ {r} : ~Writing(q, req[r].ship)']

RegistryNext ==
    \/ \E r \in Requests : (Start(r) \/ Serve(r)) /\ Remember
    \/ \E s \in Ships : Replicate(s) /\ Remember

-----------------------------------------------------------------------------
Answers(r, status) == Running(r) /\ ~Running(r)' /\ req'[r].answer = status

(* A listing that stays below the page cap is complete: a ship that has been the
   same, in the table and in its replica, and let through by the filter, all the
   time the request ran is in it. (db_list_ships follows LastEvaluatedKey.) *)
ListIsComplete(r) ==
    req[r].op = "list" /\ Answers(r, 200) /\ req'[r].pages < MaxScanPages =>
        \A s \in Ships, d \in req[r].want :
            seen[r][s] = {d} /\ lag[r][s] = {} => req'[r].items[s] = {d}

(* What a 200 shows was in the table, or in a replica behind it, at some moment of
   the request: the sample ships never stand in for a table that does not answer. *)
OnlyStoredShips(r) ==
    Answers(r, 200) =>
        /\ req[r].op = "get" => req'[r].found \in seen[r][req[r].ship] \cup lag[r][req[r].ship]
        /\ req[r].op = "list" =>
               \A s \in Ships : req'[r].items[s] \subseteq seen[r][s] \cup lag[r][s]

(* A 404 is not a datastore that fails: at some moment of the request the ship was
   not in the table, or not yet in a replica behind it. *)
NotFoundMeansAbsent(r) ==
    Answers(r, 404) => NoShip \in seen[r][req[r].ship] \cup lag[r][req[r].ship]

(* The answer to a read is true of some moment of the request, on the dictionary
   and where the replica has caught up, for then `lag` is empty. Where it has not,
   the answer may be older than the request: no call asks for a consistent read,
   and a ship whose creation was answered 200 may be missing from the next GET. *)
AnswersAreTrue ==
    [][\A r \in Requests : ListIsComplete(r) /\ OnlyStoredShips(r) /\ NotFoundMeansAbsent(r)]_registry

(* A write is to leave new of a ship that was old. *)
IsIntended(r, old, new) ==
    CASE req[r].op = "create" -> new = req[r].change
      [] req[r].op = "delete" -> new = NoShip
      [] req[r].op = "update" ->
            /\ old # NoShip /\ new # NoShip
            /\ \A f \in Fields : new[f] = IF req[r].change[f] = Keep THEN old[f] ELSE req[r].change[f]

(* It takes two clients, or a replica that is behind, to lose an update, to bring
   a deleted ship back or to run into a KeyError: a request beside which no other
   wrote the same ship does not end in a 500; answered 200 it has left what it was
   to leave, also when attempts of it failed; and an update that read no replica
   behind the table has changed the fields it names, of the ship as it was, and no
   other. (update_ship and db_delete_ship read and write in two steps.) *)
LoneWritesAreExact ==
    [][\A r \in Requests : req[r].op \in WriteOps /\ alone[r] =>
           /\ ~Answers(r, 500)
           /\ Answers(r, 200) /\ (req[r].op = "update" => lag[r][req[r].ship] = {}) =>
                  \A d \in seen[r][req[r].ship] : IsIntended(r, d, store'[req[r].ship])]_registry

(* Every request is answered, whatever the datastore does: the attempts and the
   pages of a scan are bounded. *)
EveryRequestAnswered == \A r \in Requests : req[r].pc # "idle" ~> req[r].pc = "idle"
=============================================================================
