----------------------------- MODULE Transactions -----------------------------
(***************************************************************************)
(* What a client and its servers promise together, without frames, bytes,  *)
(* timers or goroutines.  A transaction reads a range of a server's table  *)
(* into the client's copy of it, or writes the client's copy to the        *)
(* server.  Servers execute requests in the order they were issued, each   *)
(* at most once, perhaps never, perhaps after the client gave up.  A       *)
(* caller is told NoErr only if its server executed the request, and what  *)
(* a read then leaves at the client are the values the server had; a       *)
(* caller that is told an error finds the client's copy as it was.         *)
(***************************************************************************)
EXTENDS SimpleHandler

CONSTANTS
    Callers,
    Servers, ServerMemory,
    LocalMemory,
    Requests,       \* [id, fc, address, count]: what may be asked
    OthersWrite     \* the servers have other clients

VARIABLES
    issued,     \* the requests issued: [id, fc, address, count, values]
    waiting,    \* the caller of the last of them, while it has not ended
    told,       \* the error each caller was told last
    db,         \* the servers' memories
    log,        \* what each server executed: [txn, ok, values]
    local       \* the client's memories

vars == <<issued, waiting, told, db, log, local>>

Init ==
    /\ issued = << >>
    /\ waiting = {}
    /\ told = [c \in Callers |-> NoErr]
    /\ db = ServerMemory
    /\ log = [s \in Servers |-> << >>]
    /\ local = LocalMemory

InRange(r, i) == i - r.address \in 1..r.count

Has(m, r) == /\ TableOf(r.fc) \in DOMAIN m
             /\ r.address + r.count <= Len(m[TableOf(r.fc)])

Values(m, r) == SubSeq(m[TableOf(r.fc)], r.address + 1, r.address + r.count)

Update(m, r, values) ==
    [m EXCEPT ![TableOf(r.fc)] =
       [i \in 1..Len(@) |-> IF InRange(r, i) THEN values[i - r.address] ELSE @[i]]]

Tells(c, err) == told' = [told EXCEPT ![c] = err]

\* Caller c has a request issued; a broadcast (id 0) ends at once, and well.
Issue(c, q) ==
    LET values == IF IsWriteToServer(q.fc) THEN Values(local[q.id], q) ELSE << >>
    IN  /\ waiting = {}
        /\ issued' = Append(issued, [id |-> q.id, fc |-> q.fc, address |-> q.address,
                                     count |-> q.count, values |-> values])
        /\ IF q.id = 0 THEN Tells(c, NoErr) /\ UNCHANGED waiting
           ELSE waiting' = {c} /\ UNCHANGED told
        /\ UNCHANGED <<db, log, local>>

\* A request ends before it is issued: that is an error.
Refuse(c) ==
    /\ c \notin waiting
    /\ \E err \in Errors \ {NoErr} : Tells(c, err)
    /\ UNCHANGED <<issued, waiting, db, log, local>>

LastExecuted(s) == IF log[s] = << >> THEN 0 ELSE log[s][Len(log[s])].txn

Logs(s, txn, ok, values) ==
    log' = [log EXCEPT ![s] = Append(@, [txn |-> txn, ok |-> ok, values |-> values])]

\* Server s executes request n, or refuses it and changes nothing; it always
\* refuses what it does not have.
Execute(s, n) ==
    LET r == issued[n]
    IN  /\ r.id \in {0, s}
        /\ n > LastExecuted(s)
        /\ \/ Logs(s, n, FALSE, << >>) /\ UNCHANGED db
           \/ /\ IsReadToServer(r.fc) /\ Has(db[s], r)
              /\ Logs(s, n, TRUE, Values(db[s], r))
              /\ UNCHANGED db
           \/ /\ IsWriteToServer(r.fc) /\ Has(db[s], r)
              /\ Logs(s, n, TRUE, r.values)
              /\ db' = [db EXCEPT ![s] = Update(@, r, r.values)]
        /\ UNCHANGED <<issued, waiting, told, local>>

\* The last request was executed and was not refused; its caller is told so.
Succeed(c) ==
    LET n == Len(issued)
        r == issued[n]
    IN  /\ c \in waiting
        /\ \E k \in 1..Len(log[r.id]) :
              LET e == log[r.id][k]
              IN  /\ e.txn = n /\ e.ok
                  /\ local' = [local EXCEPT ![r.id] = Update(@, r, e.values)]
        /\ waiting' = {}
        /\ Tells(c, NoErr)
        /\ UNCHANGED <<issued, db, log>>

Fail(c) ==
    /\ c \in waiting
    /\ waiting' = {}
    /\ \E err \in Errors \ {NoErr} : Tells(c, err)
    /\ UNCHANGED <<issued, db, log, local>>

\* Another client writes: values change, at any time, but tables stay.
Disturb == /\ OthersWrite
           /\ \A s \in Servers : DOMAIN db'[s] = DOMAIN db[s]
           /\ UNCHANGED <<issued, waiting, told, log, local>>

Next == \/ \E c \in Callers, q \in Requests : Issue(c, q)
        \/ \E s \in Servers, n \in 1..Len(issued) : Execute(s, n)
        \/ \E c \in Callers : Refuse(c) \/ Succeed(c) \/ Fail(c)
        \/ Disturb

Spec == Init /\ [][Next]_vars
===============================================================================
