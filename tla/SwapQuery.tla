------------------------------- MODULE SwapQuery -------------------------------
(***************************************************************************)
(* The queries of the module.  A client (the command line, the REST routes *)
(* of the module, the HTTP gateway generated from query.proto, a program   *)
(* with the generated stub) turns a question, words typed by a user, into  *)
(* a request that names an RPC; the querier and the gRPC server answer it, *)
(* a page at a time when swaps are listed.  An answer is the sequence of   *)
(* the places its records have in the store, in the order of the store.    *)
(* The store is that of one height, which a query can be pinned to, so it  *)
(* is fixed while the pages are read.                                      *)
(***************************************************************************)
EXTENDS Integers, FiniteSets, Sequences

CONSTANTS
    Swaps,         \* the swaps a store may have
    Stores,        \* [swaps, supplies]: the swaps of a store, and the denoms of its supplies
    Questions,     \* [rpc] with the rest as typed: denom, swapID, or the filters of Swaps
    DefaultLimit   \* 100 swaps to a page

\* What an empty word stands for: no filter.
NotAsked == ""

\* The ID of a request that names none.  No user types it.
NoSwapID == 0

Store == [swaps : Seq(Swaps), supplies : Seq(STRING)]

Question ==
    [rpc : {"AssetSupply"}, denom : STRING] \cup [rpc : {"AssetSupplies"}]
        \cup [rpc : {"Swap"}, swapID : Nat \ {NoSwapID}]
        \cup [rpc : {"Swaps"}, involve : STRING, expiration : Nat, status : STRING,
              direction : STRING, limit : Nat]

ASSUME QueryAssumption ==
    /\ Stores \subseteq Store /\ Questions \subseteq Question
    /\ DefaultLimit \in Nat \ {0}

\* A supply is stored under its denom.
ASSUME SuppliesHaveKeys ==
    \A st \in Stores : \A i, j \in DOMAIN st.supplies : st.supplies[i] = st.supplies[j] => i = j

VARIABLES
    store,      \* the swaps and the supplies
    question,   \* what the user asks
    client,     \* what the user asks it with
    query,      \* the request it became
    received,   \* the places of the records received so far
    phase       \* "asking", "reading", "done", "notFound", "failed", "refused"

vars == <<store, question, client, query, received, phase>>

-------------------------------------------------------------------------------
(* The clients.                                                            *)

StatusWords ==
    [Open |-> "Open", open |-> "Open", Completed |-> "Completed", completed |-> "Completed",
     Expired |-> "Expired", expired |-> "Expired"]

DirectionWords ==
    [Incoming |-> "Incoming", incoming |-> "Incoming", inc |-> "Incoming", I |-> "Incoming",
     i |-> "Incoming", Outgoing |-> "Outgoing", outgoing |-> "Outgoing", out |-> "Outgoing",
     O |-> "Outgoing", o |-> "Outgoing"]

NewSwapStatusFromString(word) ==
    IF word \in DOMAIN StatusWords THEN StatusWords[word] ELSE "NULL"

NewSwapDirectionFromString(word) ==
    IF word \in DOMAIN DirectionWords THEN DirectionWords[word] ELSE "INVALID"

StatusIsValid(status)       == status \in {"Open", "Completed", "Expired"}
DirectionIsValid(direction) == direction \in {"Incoming", "Outgoing"}

NeverRefused(q) == FALSE

\* A word that is given must be known.
Refused(q) ==
    q.rpc = "Swaps" /\
    \/ q.status # NotAsked /\ ~ StatusIsValid(NewSwapStatusFromString(q.status))
    \/ q.direction # NotAsked /\ ~ DirectionIsValid(NewSwapDirectionFromString(q.direction))

\* NewQueryAtomicSwaps with the zero values of what was not asked.
NewQueryAtomicSwaps(q, limit) ==
    [page |-> 1, limit |-> limit, involve |-> q.involve, expiration |-> q.expiration,
     status    |-> NewSwapStatusFromString(q.status),
     direction |-> NewSwapDirectionFromString(q.direction)]

\* Without a limit, the REST client sends 0 and the command line 100.
RestQuery(q) == NewQueryAtomicSwaps(q, q.limit)

CliQuery(q) == NewQueryAtomicSwaps(q, IF q.limit = 0 THEN DefaultLimit ELSE q.limit)

\* The other questions are their own requests.
Request(q, params) ==
    IF q.rpc = "Swaps" THEN [rpc |-> "Swaps", params |-> params] ELSE q

-------------------------------------------------------------------------------
(* The gateway.                                                            *)

\* The paths of the RPCs under /e-money/bep3, in the order they are registered.
Registered == <<"AssetSupply", "AssetSupplies", "Swap", "Swaps">>

Pattern == [AssetSupply |-> "supply", AssetSupplies |-> "supplies", Swap |-> "swap", Swaps |-> "swap"]

\* The mux hands a path to the first handler whose pattern matches it.
Routed(path) ==
    Registered[CHOOSE i \in DOMAIN Registered :
                  /\ Pattern[Registered[i]] = path
                  /\ \A j \in 1 .. i - 1 : Pattern[Registered[j]] # path]

RequestFields == [AssetSupply |-> {"denom"}, AssetSupplies |-> {}, Swap |-> {"swapID"}, Swaps |-> {"params"}]

ZeroValues == [denom |-> "", swapID |-> NoSwapID]

\* PopulateQueryParameters ignores what is not a field of the RPC's request, and
\* leaves a field that is not asked for at its zero value, or absent.
GatewayRequest(rpc, form) ==
    [field \in {"rpc"} \cup (RequestFields[rpc] \cap (DOMAIN form \cup DOMAIN ZeroValues)) |->
        IF field = "rpc" THEN rpc
        ELSE IF field \in DOMAIN form THEN form[field] ELSE ZeroValues[field]]

-------------------------------------------------------------------------------
(* The server.                                                             *)

Matches(s, q) ==
    /\ q.involve # NotAsked => s.sender = q.involve \/ s.recipient = q.involve
    /\ q.expiration > 0 => s.expire <= q.expiration
    /\ StatusIsValid(q.status) => s.status = q.status
    /\ DirectionIsValid(q.direction) => s.direction = q.direction

\* The places of the swaps that match, in the order of the store.
Matching(swaps, q) ==
    LET filtered[i \in 0 .. Len(swaps)] ==
            IF i = 0 THEN <<>>
            ELSE IF Matches(swaps[i], q) THEN Append(filtered[i - 1], i)
            ELSE filtered[i - 1]
    IN  filtered[Len(swaps)]

\* client.Paginate: the half-open range of a page, negative when there is none.
Paginate(numObjs, page, limit) ==
    LET size  == IF limit = 0 THEN DefaultLimit ELSE limit
        start == (page - 1) * size
    IN  IF page = 0 \/ start >= numObjs THEN <<-1, -1>>
        ELSE <<start, IF start + size >= numObjs THEN numObjs ELSE start + size>>

filterAtomicSwapsShort(swaps, q) ==
    LET filtered == Matching(swaps, q)
        page     == Paginate(Len(filtered), q.page, q.limit)
    IN  IF page[1] < 0 \/ page[2] < 0 THEN <<>> ELSE SubSeq(filtered, page[1] + 1, page[2] - 1)

filterAtomicSwaps(swaps, q) ==
    LET filtered == Matching(swaps, q)
        page     == Paginate(Len(filtered), q.page, q.limit)
    IN  IF page[1] < 0 \/ page[2] < 0 THEN <<>> ELSE SubSeq(filtered, page[1] + 1, page[2])

-------------------------------------------------------------------------------

\* A record under the key it is asked for, or none.
Lookup(places) == IF places = {} THEN <<>> ELSE <<CHOOSE i \in places : TRUE>>

\* GetAssetSupply, GetAllAssetSupplies, GetAtomicSwap, and the swaps, which are
\* filtered and cut into pages when the request has params.
Answer(request) ==
    CASE request.rpc = "AssetSupply" ->
            Lookup({i \in DOMAIN store.supplies : store.supplies[i] = request.denom})
      [] request.rpc = "AssetSupplies" -> [i \in DOMAIN store.supplies |-> i]
      [] request.rpc = "Swap" -> Lookup({request.swapID} \cap DOMAIN store.swaps)
      [] request.rpc = "Swaps" ->
            IF "params" \in DOMAIN request THEN filterAtomicSwaps(store.swaps, request.params)
            ELSE [i \in DOMAIN store.swaps |-> i]

-------------------------------------------------------------------------------

Init ==
    /\ store \in Stores /\ question \in Questions
    /\ client = "none" /\ query = question
    /\ received = <<>> /\ phase = "asking"

Refuse(c) ==
    /\ phase = "asking" /\ Refused(question)
    /\ client' = c /\ phase' = "refused"
    /\ UNCHANGED <<store, question, query, received>>

Ask(c, request) ==
    /\ phase = "asking" /\ ~ Refused(question)
    /\ client' = c /\ query' = request /\ phase' = "reading"
    /\ UNCHANGED <<store, question, received>>

CliAsk == Ask("cli", Request(question, CliQuery(question)))

RestAsk == Ask("rest", Request(question, RestQuery(question)))

GatewayAsk ==
    LET form == Request(question, RestQuery(question))
    IN  Ask("gateway", GatewayRequest(Routed(Pattern[form.rpc]), form))

\* A program that leaves the params of the request out.
StubAsk ==
    /\ question.rpc = "Swaps"
    /\ question.involve = NotAsked /\ question.expiration = 0
    /\ question.status = NotAsked /\ question.direction = NotAsked
    /\ Ask("stub", [rpc |-> "Swaps"])

\* The user turns the pages until one is empty.
ReadPage ==
    LET answer == Answer(query)
    IN  /\ phase = "reading" /\ "params" \in DOMAIN query
        /\ received' = received \o answer
        /\ phase' = IF answer = <<>> THEN "done" ELSE "reading"
        /\ query' = [query EXCEPT !.params.page = @ + 1]
        /\ UNCHANGED <<store, question, client>>

\* The prefix store panics on a nil key; the node recovers and answers an error.
HasNilKey(request) == request.rpc = "Swap" /\ request.swapID = NoSwapID

\* A record that is not in the store is an error.
ReadAnswer ==
    /\ phase = "reading" /\ "params" \notin DOMAIN query /\ ~ HasNilKey(query)
    /\ received' = Answer(query)
    /\ phase' = IF query.rpc \in {"AssetSupply", "Swap"} /\ received' = <<>> THEN "notFound" ELSE "done"
    /\ UNCHANGED <<store, question, client, query>>

Fail ==
    /\ phase = "reading" /\ HasNilKey(query)
    /\ phase' = "failed"
    /\ UNCHANGED <<store, question, client, query, received>>

Next ==
    \/ \E c \in {"cli", "rest"} : Refuse(c)
    \/ CliAsk \/ RestAsk \/ GatewayAsk \/ StubAsk
    \/ ReadPage \/ ReadAnswer \/ Fail

Spec == Init /\ [][Next]_vars

-------------------------------------------------------------------------------

StandsFor(word, words, value) ==
    word = NotAsked \/ (word \in DOMAIN words /\ words[word] = value)

AskedSwap(s) ==
    /\ question.involve \in {NotAsked, s.sender, s.recipient}
    /\ question.expiration = 0 \/ s.expire <= question.expiration
    /\ StandsFor(question.status, StatusWords, s.status)
    /\ StandsFor(question.direction, DirectionWords, s.direction)

Asked ==
    CASE question.rpc = "AssetSupply"   -> {i \in DOMAIN store.supplies : store.supplies[i] = question.denom}
      [] question.rpc = "AssetSupplies" -> DOMAIN store.supplies
      [] question.rpc = "Swap"          -> {question.swapID} \cap DOMAIN store.swaps
      [] question.rpc = "Swaps"         -> {i \in DOMAIN store.swaps : AskedSwap(store.swaps[i])}

\* What a client has received are records its user asked for, each once and in
\* the order of the store, and in the end all of them.
Answered ==
    /\ \A i, j \in DOMAIN received : i < j => received[i] < received[j]
    /\ \A i \in DOMAIN received : received[i] \in Asked
    /\ phase \in {"done", "notFound", "failed"} => Len(received) = Cardinality(Asked)

\* Every question is answered, with any limit of a page, from every client, but
\* for the swaps the gateway is asked for (below); filterAtomicSwaps skips a
\* filter it does not understand, so it relies on the clients to refuse words
\* they do not know.
PagesAnswerQuestion == client # "gateway" \/ question.rpc # "Swaps" => Answered

\* docs/proto/em/proto-docs.md:539 lists an endpoint of the gateway for Swaps.  It
\* is the endpoint of Swap, whose handler is registered before.
GatewayAnswersSwaps == client = "gateway" /\ question.rpc = "Swaps" => Answered
===============================================================================
