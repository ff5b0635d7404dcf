------------------------ MODULE M2MResourceRequests ------------------------
(***************************************************************************)
(* A resource whose values and executions belong to the application: a     *)
(* PUT that comes in blocks, a POST that is answered later, the callbacks  *)
(* they end in, and the objects that come and go at the same address.      *)
(* Translated from source/m2mresourcebase.cpp, m2mresource.cpp, m2mbase.cpp *)
(* and the end of resource_callback() in m2mnsdlinterface.cpp.             *)
(*                                                                         *)
(* The server and the application are environment. The server sends the    *)
(* blocks of a transfer in order, may repeat the last one, give a transfer *)
(* up for another and announce a size with any block; the application      *)
(* stores blocks by their number and combines them at the last one, as     *)
(* docs/Howto.md:428 asks it to.                                           *)
(***************************************************************************)
EXTENDS M2MBlockMessage, M2MCallbackStorage, FiniteSets

CONSTANTS
    Resource,     \* the address of the resource the server writes to and executes
    Others,       \* addresses of other objects
    Types,        \* the callback types used, of M2MCallbackType
    Callbacks,    \* the application's callbacks
    Settings,     \* which it sets, and for which object and type
    Transfers,    \* the values the server writes in blocks
    Blocks,       \* the number of blocks of each
    Sizes,        \* the sizes it announces
    Tokens,       \* the tokens of its POST requests
    Outstanding,  \* how many of them it has unanswered at a time
    NoToken

Objects == {Resource} \cup Others
Values == {<<t, k>> : t \in Transfers, k \in 0..2}

ASSUME RequestsAssumption ==
    /\ Blocks \in [Transfers -> 1..3]
    /\ Settings \subseteq Objects \X Types \X Callbacks
    /\ Sizes \subseteq Nat
    /\ Outstanding \in Nat
    /\ NoToken \notin Tokens /\ NoCallback \notin Callbacks
    /\ IsFiniteSet(Others) /\ IsFiniteSet(Types)

VARIABLES
    alive,      \* the objects that exist
    callbacks,  \* the list of M2MCallbackStorage
    message,    \* _block_message_data, NoMessage before a handler is set
    value,      \* the value of the resource
    delayed,    \* _delayed_response
    token,      \* _delayed_token
    set,        \* the application: the callback it set last for each object and type
    stored,     \* the application: the blocks it holds, by number
    executing,  \* the application: executions it has not answered yet
    transfer,   \* the server: the value it writes and the block it sends next
    awaiting,   \* the server: the tokens of the POST requests without a response
    done        \* what the last step did: a value combined, value_updated() called

resource == <<message, value, delayed, token>>
server == <<transfer, awaiting>>
vars == <<alive, callbacks, resource, set, stored, executing, server, done>>

NoMessage == [NewMessage EXCEPT !.block_number = NoBlock - 1]
NoBody == <<>>
Empty == [k \in 0..2 |-> NoData]
Nothing == [combined |-> NoBody, sent |-> NoBlock, updated |-> FALSE]

-----------------------------------------------------------------------------
(* Callbacks and the life of objects.                                      *)

\* Mutant: the callback set before stays in front.
SetCallback_Adds(list, object, type, callback) == AddCallback(list, object, type, callback)

\* set_value_updated_function(), set_execute_function(), set_notification_sent_callback(),
\* set_incoming_block_message_callback(), set_outgoing_block_message_callback()
SetCallback(list, object, type, callback) ==
    AddCallback(RemoveCallback(list, object, type), object, type, callback)

\* Mutant: the destructor forgets the plain functions.
RemoveCallbacks_ForgetsFunctions(list, object) ==
    FoldSet(LAMBDA type, rest : RemoveCallback(rest, object, type), list,
            Types \ {"ExecuteCallback2"})

\* ~M2MResourceBase() and ~M2MBase() remove one callback of each type.
RemoveCallbacks(list, object) ==
    FoldSet(LAMBDA type, rest : RemoveCallback(rest, object, type), list, Types)

\* An object is made, maybe where another one was.
Create(object) ==
    /\ object \notin alive
    /\ alive' = alive \cup {object}
    /\ done' = Nothing
    /\ IF object = Resource
       THEN /\ message' = NoMessage
            /\ value' = NoData
            /\ delayed' = FALSE
            /\ token' = NoToken
       ELSE UNCHANGED resource
    /\ UNCHANGED <<callbacks, set, stored, executing, server>>

\* The destructors of M2MResource, M2MResourceBase and M2MBase.
Destroy(object) ==
    /\ object \in alive
    /\ alive' = alive \ {object}
    /\ callbacks' = RemoveCallbacks(callbacks, object)
    /\ set' = [s \in Objects \X Types |-> IF s[1] = object THEN NoCallback ELSE set[s]]
    /\ done' = Nothing
    /\ IF object = Resource
       THEN /\ message' = NoMessage
            /\ value' = NoData
            /\ delayed' = FALSE
            /\ token' = NoToken
            /\ stored' = Empty
            /\ executing' = 0
            /\ awaiting' = {}
            /\ UNCHANGED transfer
       ELSE UNCHANGED <<resource, stored, executing, server>>

\* A handler for incoming blocks comes with an M2MBlockMessage of its own.
Set(object, type, callback) ==
    /\ object \in alive
    /\ callbacks' = SetCallback(callbacks, object, type, callback)
    /\ set' = [set EXCEPT ![<<object, type>>] = callback]
    /\ message' = IF object = Resource /\ type = "IncomingBlockMessageCallback"
                  THEN NewMessage ELSE message
    /\ done' = Nothing
    /\ UNCHANGED <<alive, value, delayed, token, stored, executing, server>>

-----------------------------------------------------------------------------
(* PUT.                                                                    *)

\* The incoming block callback: after an error the blocks held so far are no
\* longer wanted, block 0 begins a value anew.
Store(noted) ==
    IF noted.too_large THEN Empty
    ELSE [(IF noted.block_number = 0 THEN Empty ELSE stored)
             EXCEPT ![noted.block_number] = noted.data]

Combined(noted) ==
    LET body == [k \in 0..noted.block_number |-> Store(noted)[k]]
    IN  IF noted.is_last /\ ~noted.too_large /\ \A k \in DOMAIN body : body[k] # NoData
        THEN body ELSE NoBody

\* handle_put_request() of M2MResourceBase, then resource_callback(): the value is
\* reported unless more blocks are expected.
HandlePut(header, sent) ==
    LET noted == IF message = NoMessage THEN NoMessage ELSE SetMessageInfo(message, header) IN
    /\ Resource \in alive
    /\ IF noted.is_block
       THEN /\ stored' = Store(noted)
            /\ message' = IF noted.is_last \/ noted.too_large THEN ClearValues(noted) ELSE noted
            /\ done' = [combined |-> Combined(noted), sent |-> sent, updated |-> noted.is_last]
            /\ UNCHANGED value
       ELSE /\ message' = noted
            /\ value' = header.payload
            /\ done' = [combined |-> NoBody, sent |-> sent, updated |-> TRUE]
            /\ UNCHANGED stored
    /\ UNCHANGED <<alive, callbacks, delayed, token, set, executing, awaiting>>

\* The next block of the transfer, or the last one again.
PutBlock(k, size1) ==
    LET t == transfer.value IN
    /\ message # NoMessage
    /\ k \in {transfer.next, transfer.next - 1} \cap 0..(Blocks[t] - 1)
    /\ transfer' = [transfer EXCEPT !.next = k + 1]
    /\ HandlePut(Header(TRUE, k, k < Blocks[t] - 1, size1, <<t, k>>), k)

\* A value without blocks, with or without other options.
PutPlain(t, options, size1) ==
    /\ HandlePut(Header(options, NoBlock, FALSE, size1, <<t, 0>>), NoBlock)
    /\ UNCHANGED transfer

\* The server begins a transfer, whatever became of the one before.
Begin(t) ==
    /\ transfer' = [value |-> t, next |-> 0]
    /\ done' = Nothing
    /\ UNCHANGED <<alive, callbacks, resource, set, stored, executing, awaiting>>

-----------------------------------------------------------------------------
(* POST.                                                                   *)

\* The token M2MResource::handle_post_request() keeps: a request without one leaves
\* the token of an earlier request.
DelayedToken(old, new) == IF new = NoToken THEN old ELSE new

\* M2MResource::execute() calls both callbacks.
Executes ==
    \E type \in Types \cap {"ExecuteCallback", "ExecuteCallback2"} :
        GetCallback(callbacks, Resource, type) # NoCallback

\* M2MResource::handle_post_request(): the response is immediate or delayed.
Post(t) ==
    /\ Resource \in alive
    /\ Cardinality(awaiting) < Outstanding
    /\ t \notin awaiting
    /\ IF delayed
       THEN /\ token' = DelayedToken(token, t)
            /\ awaiting' = awaiting \cup {t}
            /\ executing' = executing + (IF Executes THEN 1 ELSE 0)
       ELSE UNCHANGED <<token, awaiting, executing>>
    /\ done' = Nothing
    /\ UNCHANGED <<alive, callbacks, message, value, delayed, set, stored, transfer>>

\* set_delayed_response()
SetDelayedResponse(on) ==
    /\ Resource \in alive
    /\ delayed # on
    /\ delayed' = on
    /\ done' = Nothing
    /\ UNCHANGED <<alive, callbacks, message, value, token, set, stored, executing, server>>

\* send_delayed_post_response(), once for each execution.
SendDelayedPostResponse ==
    /\ Resource \in alive
    /\ executing > 0
    /\ executing' = executing - 1
    /\ awaiting' = IF delayed THEN awaiting \ {token} ELSE awaiting
    /\ done' = Nothing
    /\ UNCHANGED <<alive, callbacks, resource, set, stored, transfer>>

\* The server waits no longer for an execution that did not begin or was not
\* answered.
GiveUp ==
    /\ executing = 0
    /\ awaiting # {}
    /\ awaiting' = {}
    /\ done' = Nothing
    /\ UNCHANGED <<alive, callbacks, resource, set, stored, executing, transfer>>

-----------------------------------------------------------------------------
Init ==
    /\ alive = {}
    /\ callbacks = <<>>
    /\ message = NoMessage
    /\ value = NoData
    /\ delayed = FALSE
    /\ token = NoToken
    /\ set = [s \in Objects \X Types |-> NoCallback]
    /\ stored = Empty
    /\ executing = 0
    /\ \E t \in Transfers : transfer = [value |-> t, next |-> 0]
    /\ awaiting = {}
    /\ done = Nothing

Next ==
    \/ \E object \in Objects : Create(object) \/ Destroy(object)
    \/ \E s \in Settings : Set(s[1], s[2], s[3])
    \/ \E k \in 0..2, size1 \in Sizes \cup {NoSize} : PutBlock(k, size1)
    \/ \E t \in Transfers : Begin(t)
    \/ \E t \in Transfers, options \in BOOLEAN, size1 \in Sizes \cup {NoSize} :
           PutPlain(t, options, size1)
    \/ \E t \in Tokens \cup {NoToken} : Post(t)
    \/ \E on \in BOOLEAN : SetDelayedResponse(on)
    \/ SendDelayedPostResponse
    \/ GiveUp

Spec == Init /\ [][Next]_vars

-----------------------------------------------------------------------------
(* Properties.                                                             *)

TypeOK ==
    /\ alive \subseteq Objects
    /\ Len(callbacks) <= Cardinality(Objects) * Cardinality(Types)
    /\ \A k \in DOMAIN callbacks : /\ <<callbacks[k].object, callbacks[k].type>> \in Objects \X Types
                                   /\ callbacks[k].callback \in Callbacks
    /\ message.total_size \in {0} \cup Sizes
    /\ message.data \in Values \cup {NoData}
    /\ value \in Values \cup {NoData}
    /\ delayed \in BOOLEAN
    /\ token \in Tokens \cup {NoToken}
    /\ executing \in Nat
    /\ transfer \in [value : Transfers, next : 0..3]
    /\ awaiting \subseteq Tokens \cup {NoToken}

\* The list is a map: what is called for an object is the callback the application
\* set last for it, and nothing is called for an object that has none or is gone,
\* though callbacks are kept by address and addresses are used again
\* (M2MCallbackStorage and the destructors that call it).
CallbacksAreCurrent ==
    \A object \in Objects, type \in Types :
        GetCallback(callbacks, object, type) = set[<<object, type>>]

\* A value the application combines is one the server sent, whole and from one
\* transfer, whatever was given up, repeated or refused before
\* (set_message_info(), clear_values()).
CombinedIsComplete ==
    done.combined # NoBody =>
        \E t \in Transfers : done.combined = [k \in 0..(Blocks[t] - 1) |-> <<t, k>>]

\* value_updated() is called for a value in blocks only when its last block was
\* accepted: what a block or an error left behind never ends the next transfer
\* (handle_put_request(), resource_callback()).
UpdatedIsComplete ==
    done.updated /\ done.sent # NoBlock =>
        done.sent = Blocks[transfer.value] - 1

\* docs/dev_man_serv_enable.md:219: "the client sends the latest resource value to the
\* server as part of a separate response to the POST request." What the application
\* may answer is a request the server still waits for. One token is kept, so this
\* holds only of a server that awaits a response before its next request.
AnswersAreAwaited == executing > 0 /\ delayed => token \in awaiting
=============================================================================
