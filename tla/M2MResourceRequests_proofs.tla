--------------------- MODULE M2MResourceRequests_proofs ---------------------
(***************************************************************************)
(* Theorems about M2MResourceRequests, for any objects, callbacks,         *)
(* transfers and sizes.                                                    *)
(***************************************************************************)
EXTENDS M2MResourceRequests, FiniteSetTheorems, TLAPS

-----------------------------------------------------------------------------
(* Blocks.                                                                 *)

Message ==
    [is_block : BOOLEAN, block_number : Int, is_last : BOOLEAN, total_size : {0} \cup Sizes,
     too_large : BOOLEAN, data : Values \cup {NoData}]

\* What is kept between two requests has no last block: the flag is cleared with the
\* transfer it ended.
Kept(m) == m \in Message /\ ~m.is_last

LEMMA NewMessages == Kept(NewMessage) /\ Kept(NoMessage)
  <1>1. Kept(NewMessage)
    BY DEF Kept, Message, NewMessage
  <1>2. NoMessage.is_last = NewMessage.is_last /\ NoMessage \in Message
    <2>1. NoBlock - 1 \in Int
      BY DEF NoBlock
    <2> QED
      BY <1>1, <2>1 DEF Kept, Message, NoMessage
  <1> QED
    BY <1>1, <1>2 DEF Kept

LEMMA NotedBlock ==
    ASSUME NEW m, Kept(m),
           NEW k \in 0..2, NEW more \in BOOLEAN, NEW size1 \in Sizes \cup {NoSize},
           NEW data \in Values
    PROVE  LET noted == SetMessageInfo(m, Header(TRUE, k, more, size1, data))
           IN  /\ noted \in Message
               /\ noted.is_block
               /\ noted.too_large => ~noted.is_last
               /\ ~noted.too_large => /\ noted.is_last = ~more
                                      /\ noted.block_number = k
                                      /\ noted.data = data
  <1> DEFINE header == Header(TRUE, k, more, size1, data)
             total == IF size1 # NoSize THEN size1 ELSE m.total_size
             noted == SetMessageInfo(m, header)
             begun == [m EXCEPT !.is_block = TRUE]
  <1>1. /\ header.options /\ header.block = k /\ header.more = more
        /\ header.size1 = size1 /\ header.payload = data /\ (header.block # NoBlock) = TRUE
    BY DEF Header, NoBlock
  <1>2. total \in {0} \cup Sizes /\ begun \in Message /\ ~begun.is_last
    BY DEF Kept, Message
  <1>3. noted = IF total > MaxSize
                THEN [begun EXCEPT !.total_size = total, !.too_large = TRUE]
                ELSE [begun EXCEPT !.total_size = total, !.too_large = FALSE,
                                   !.is_last = ~more, !.block_number = k, !.data = data]
    BY <1>1 DEF SetMessageInfo
  <1> HIDE DEF header, total, noted, begun
  <1>4. ASSUME total > MaxSize
        PROVE  noted \in Message /\ noted.is_block /\ noted.too_large /\ ~noted.is_last
    <2>1. noted = [begun EXCEPT !.total_size = total, !.too_large = TRUE]
      BY <1>3, <1>4
    <2>2. begun.is_block
      BY DEF begun, Kept, Message
    <2> QED
      BY <1>2, <2>1, <2>2 DEF Message
  <1>5. ASSUME ~(total > MaxSize)
        PROVE  /\ noted \in Message /\ noted.is_block /\ ~noted.too_large
               /\ noted.is_last = ~more /\ noted.block_number = k /\ noted.data = data
    <2>1. noted = [begun EXCEPT !.total_size = total, !.too_large = FALSE,
                                !.is_last = ~more, !.block_number = k, !.data = data]
      BY <1>3, <1>5
    <2>2. noted = [is_block |-> TRUE, block_number |-> k, is_last |-> ~more,
                   total_size |-> total, too_large |-> FALSE, data |-> data]
      BY <2>1 DEF begun, Kept, Message
    <2>3. k \in Int /\ (~more) \in BOOLEAN
      OBVIOUS
    <2> QED
      BY <1>2, <2>2, <2>3 DEF Message
  <1> QED
    BY <1>4, <1>5 DEF noted, header

LEMMA NotedPlain ==
    ASSUME NEW m, Kept(m), NEW options \in BOOLEAN, NEW size1 \in Sizes \cup {NoSize},
           NEW data \in Values
    PROVE  LET noted == SetMessageInfo(m, Header(options, NoBlock, FALSE, size1, data))
           IN  Kept(noted) /\ ~noted.is_block
  <1> DEFINE header == Header(options, NoBlock, FALSE, size1, data)
             total == IF size1 # NoSize THEN size1 ELSE m.total_size
             noted == SetMessageInfo(m, header)
             begun == [m EXCEPT !.is_block = FALSE]
  <1>1. /\ header.options = options /\ header.block = NoBlock /\ header.size1 = size1
        /\ header.payload = data /\ (header.block # NoBlock) = FALSE
    BY DEF Header
  <1>2. begun \in Message /\ ~begun.is_last /\ ~begun.is_block
    BY DEF Kept, Message
  <1>3. noted = IF ~options THEN begun
                ELSE IF total > MaxSize
                THEN [begun EXCEPT !.total_size = total, !.too_large = TRUE]
                ELSE [begun EXCEPT !.total_size = total, !.too_large = FALSE,
                                   !.is_last = @, !.block_number = NoBlock, !.data = data]
    BY <1>1 DEF SetMessageInfo
  <1>4. total \in {0} \cup Sizes /\ NoBlock \in Int
    BY DEF Kept, Message, NoBlock
  <1> HIDE DEF header, total, noted, begun
  <1>5. CASE ~options
    BY <1>2, <1>3, <1>5 DEF noted, header, Kept
  <1>6. CASE options /\ total > MaxSize
    <2>1. noted = [begun EXCEPT !.total_size = total, !.too_large = TRUE]
      BY <1>3, <1>6
    <2>2. noted \in Message /\ ~noted.is_last /\ ~noted.is_block
      BY <1>2, <1>4, <2>1 DEF Message
    <2> QED
      BY <2>2 DEF noted, header, Kept
  <1>7. CASE options /\ ~(total > MaxSize)
    <2>1. noted = [begun EXCEPT !.total_size = total, !.too_large = FALSE,
                                !.is_last = @, !.block_number = NoBlock, !.data = data]
      BY <1>3, <1>7
    <2>2. noted = [is_block |-> FALSE, block_number |-> NoBlock, is_last |-> begun.is_last,
                   total_size |-> total, too_large |-> FALSE, data |-> data]
      BY <2>1 DEF begun, Kept, Message
    <2>3. begun.is_last \in BOOLEAN
      BY <1>2 DEF Message
    <2>4. noted \in Message /\ ~noted.is_last /\ ~noted.is_block
      BY <1>2, <1>4, <2>2, <2>3 DEF Message
    <2> QED
      BY <2>4 DEF noted, header, Kept
  <1> QED
    BY <1>5, <1>6, <1>7

LEMMA ClearedMessage ==
    ASSUME NEW m \in Message
    PROVE  Kept(ClearValues(m))
  <1> DEFINE m1 == [m EXCEPT !.data = NoData]
             m2 == [m1 EXCEPT !.block_number = 0]
             m3 == [m2 EXCEPT !.total_size = 0]
             m4 == [m3 EXCEPT !.is_last = FALSE]
             m5 == [m4 EXCEPT !.too_large = FALSE]
  <1>1. \A x \in Message : /\ [x EXCEPT !.data = NoData] \in Message
                           /\ [x EXCEPT !.block_number = 0] \in Message
                           /\ [x EXCEPT !.total_size = 0] \in Message
    BY DEF Message
  <1>2. \A x \in Message : Kept([x EXCEPT !.is_last = FALSE])
    BY DEF Kept, Message
  <1>3. \A x : Kept(x) => Kept([x EXCEPT !.too_large = FALSE])
    BY DEF Kept, Message
  <1>4. m5 = ClearValues(m)
    BY DEF ClearValues
  <1>5. m1 \in Message
    BY <1>1
  <1> HIDE DEF m1
  <1>6. m2 \in Message
    BY <1>1, <1>5
  <1> HIDE DEF m2
  <1>7. m3 \in Message
    BY <1>1, <1>6
  <1> HIDE DEF m3
  <1>8. Kept(m4)
    BY <1>2, <1>7
  <1> HIDE DEF m4
  <1> QED
    BY <1>3, <1>4, <1>8

LEMMA BlocksAreValues ==
    ASSUME NEW t \in Transfers, NEW k \in 0..2
    PROVE  <<t, k>> \in Values /\ <<t, k>> # NoData
  BY DEF Values, NoData

\* What the application holds is of the transfer that is under way.
BlocksInv ==
    /\ Kept(message)
    /\ value \in Values \cup {NoData}
    /\ stored \in [0..2 -> Values \cup {NoData}]
    /\ transfer \in [value : Transfers, next : 0..3]
    /\ transfer.next > 0 => \A k \in 0..2 : stored[k] \in {NoData, <<transfer.value, k>>}

\* What a step tells is whole.
Whole == CombinedIsComplete /\ UpdatedIsComplete

LEMMA PutBlockKeeps ==
    ASSUME BlocksInv, NEW k \in 0..2, NEW size1 \in Sizes \cup {NoSize}, PutBlock(k, size1)
    PROVE  BlocksInv' /\ Whole'
  <1> DEFINE t == transfer.value
             more == k < Blocks[t] - 1
             header == Header(TRUE, k, more, size1, <<t, k>>)
             noted == SetMessageInfo(message, header)
             body == [j \in 0..noted.block_number |-> Store(noted)[j]]
  <1>1. /\ message # NoMessage
        /\ k \in {transfer.next, transfer.next - 1} /\ k \in 0..(Blocks[t] - 1)
        /\ transfer' = [transfer EXCEPT !.next = k + 1]
        /\ HandlePut(header, k)
    BY DEF PutBlock
  <1>2. t \in Transfers /\ Blocks[t] \in 1..3 /\ <<t, k>> \in Values /\ <<t, k>> # NoData
    BY RequestsAssumption, BlocksAreValues DEF BlocksInv
  <1>3. transfer' \in [value : Transfers, next : 0..3] /\ transfer'.value = t
    BY <1>1, <1>2 DEF BlocksInv
  <1>4. /\ noted \in Message
        /\ noted.is_block
        /\ noted.too_large => ~noted.is_last
        /\ ~noted.too_large => /\ noted.is_last = ~(k < Blocks[t] - 1)
                               /\ noted.block_number = k
                               /\ noted.data = <<t, k>>
    <2>1. more \in BOOLEAN /\ Kept(message)
      BY DEF BlocksInv
    <2> HIDE DEF t, more
    <2>2. /\ noted \in Message
          /\ noted.is_block
          /\ noted.too_large => ~noted.is_last
          /\ ~noted.too_large => /\ noted.is_last = ~more
                                 /\ noted.block_number = k
                                 /\ noted.data = <<t, k>>
      BY <1>2, <2>1, NotedBlock
    <2> QED
      BY <2>2 DEF more
  <1> HIDE DEF header
  <1>5. /\ stored' = Store(noted)
        /\ message' = IF noted.is_last \/ noted.too_large THEN ClearValues(noted) ELSE noted
        /\ done' = [combined |-> Combined(noted), sent |-> k, updated |-> noted.is_last]
        /\ value' = value
    BY <1>1, <1>4 DEF HandlePut
  <1> HIDE DEF noted, t
  <1>6. Kept(message')
    BY <1>4, <1>5, ClearedMessage DEF Kept
  <1>7. /\ Store(noted) \in [0..2 -> Values \cup {NoData}]
        /\ \A j \in 0..2 : Store(noted)[j] \in {NoData, <<t, j>>}
    <2>1. CASE noted.too_large
      BY <2>1 DEF Store, Empty
    <2>2. CASE ~noted.too_large /\ k = 0
      <3>1. Store(noted) = [Empty EXCEPT ![0] = <<t, k>>]
        BY <1>4, <2>2 DEF Store
      <3> QED
        BY <1>2, <2>2, <3>1 DEF Empty
    <2>3. CASE ~noted.too_large /\ k # 0
      <3>1. Store(noted) = [stored EXCEPT ![k] = <<t, k>>]
        BY <1>4, <2>3 DEF Store
      <3>2. transfer.next > 0
        BY <1>1, <2>3 DEF BlocksInv
      <3>3. /\ stored \in [0..2 -> Values \cup {NoData}]
            /\ \A j \in 0..2 : stored[j] \in {NoData, <<t, j>>}
        BY <3>2 DEF BlocksInv, t
      <3> QED
        BY <1>2, <3>1, <3>3
    <2> QED
      BY <2>1, <2>2, <2>3
  <1>8. CombinedIsComplete'
    <2> SUFFICES ASSUME Combined(noted) # NoBody
                 PROVE  Combined(noted) = [j \in 0..(Blocks[t] - 1) |-> <<t, j>>]
      <3>1. done'.combined = Combined(noted)
        BY <1>5
      <3> QED
        BY <1>2, <3>1 DEF CombinedIsComplete
    <2>1. /\ noted.is_last /\ ~noted.too_large /\ \A j \in DOMAIN body : body[j] # NoData
          /\ Combined(noted) = body
      BY DEF Combined
    <2>2. k = Blocks[t] - 1 /\ noted.block_number = k
      <3>1. ~(k < Blocks[t] - 1) /\ noted.block_number = k
        BY <1>4, <2>1, Zenon
      <3> QED
        BY <1>1, <1>2, <3>1
    <2>3. DOMAIN body = 0..k /\ \A j \in 0..k : body[j] = Store(noted)[j]
      BY <2>2
    <2>4. body = [j \in 0..k |-> body[j]]
      BY <2>3
    <2> HIDE DEF body
    <2>5. \A j \in 0..k : body[j] = <<t, j>>
      BY <1>7, <2>1, <2>3
    <2> QED
      BY <2>1, <2>2, <2>4, <2>5
  <1>9. UpdatedIsComplete'
    <2>1. done'.updated => ~(k < Blocks[t] - 1)
      BY <1>4, <1>5
    <2>2. done'.sent = k
      BY <1>5
    <2> QED
      BY <1>1, <1>2, <1>3, <2>1, <2>2 DEF UpdatedIsComplete
  <1> QED
    BY <1>3, <1>5, <1>6, <1>7, <1>8, <1>9 DEF BlocksInv, Whole

LEMMA PutPlainKeeps ==
    ASSUME BlocksInv, NEW t \in Transfers, NEW options \in BOOLEAN,
           NEW size1 \in Sizes \cup {NoSize}, PutPlain(t, options, size1)
    PROVE  BlocksInv' /\ Whole'
  <1> DEFINE header == Header(options, NoBlock, FALSE, size1, <<t, 0>>)
             noted == IF message = NoMessage THEN NoMessage ELSE SetMessageInfo(message, header)
  <1>1. <<t, 0>> \in Values
    <2>1. 0 \in 0..2
      OBVIOUS
    <2> QED
      BY <2>1, BlocksAreValues
  <1>2. Kept(noted) /\ ~noted.is_block
    <2>1. CASE message = NoMessage
      <3>1. ~NoMessage.is_block
        BY DEF NoMessage, NewMessage
      <3> QED
        BY <2>1, <3>1, NewMessages
    <2>2. CASE message # NoMessage
      BY <1>1, <2>2, NotedPlain DEF BlocksInv
    <2> QED
      BY <2>1, <2>2
  <1>3. HandlePut(header, NoBlock) /\ UNCHANGED transfer
    BY DEF PutPlain
  <1>4. header.payload = <<t, 0>>
    BY DEF Header
  <1> HIDE DEF header
  <1>5. /\ message' = noted /\ value' = <<t, 0>> /\ UNCHANGED stored
        /\ done' = [combined |-> NoBody, sent |-> NoBlock, updated |-> TRUE]
    BY <1>2, <1>3, <1>4 DEF HandlePut
  <1> HIDE DEF noted
  <1> QED
    BY <1>1, <1>2, <1>3, <1>5 DEF BlocksInv, Whole, CombinedIsComplete, UpdatedIsComplete

\* The actions that are no PUT: the resource is made or goes, gets a handler, is
\* left alone, or the server begins another transfer.
LEMMA OthersKeepBlocks ==
    ASSUME BlocksInv, Next
    PROVE  \/ \E k \in 0..2, size1 \in Sizes \cup {NoSize} : PutBlock(k, size1)
           \/ \E t \in Transfers, options \in BOOLEAN, size1 \in Sizes \cup {NoSize} :
                  PutPlain(t, options, size1)
           \/ BlocksInv' /\ Whole'
  <1>1. done' = Nothing => Whole'
    BY DEF Whole, CombinedIsComplete, UpdatedIsComplete, Nothing
  <1>2. Empty \in [0..2 -> Values \cup {NoData}] /\ \A k \in 0..2 : Empty[k] = NoData
    BY DEF Empty
  <1>3. ASSUME NEW object \in Objects, Create(object)
        PROVE  BlocksInv' /\ Whole'
    BY <1>1, <1>3, NewMessages DEF Create, BlocksInv, resource, server
  <1>4. ASSUME NEW object \in Objects, Destroy(object)
        PROVE  BlocksInv' /\ Whole'
    <2>1. CASE object = Resource
      BY <1>1, <1>2, <1>4, <2>1, NewMessages DEF Destroy, BlocksInv
    <2>2. CASE object # Resource
      BY <1>1, <1>4, <2>2 DEF Destroy, BlocksInv, resource, server
    <2> QED
      BY <2>1, <2>2
  <1>5. ASSUME NEW s \in Settings, Set(s[1], s[2], s[3])
        PROVE  BlocksInv' /\ Whole'
    BY <1>1, <1>5, NewMessages DEF Set, BlocksInv, server
  <1>6. ASSUME NEW t \in Transfers, Begin(t)
        PROVE  BlocksInv' /\ Whole'
    <2>1. transfer' = [value |-> t, next |-> 0] /\ UNCHANGED <<message, value, stored>>
      BY <1>6 DEF Begin, resource
    <2>2. transfer' \in [value : Transfers, next : 0..3] /\ ~(transfer'.next > 0)
      BY <2>1
    <2> QED
      BY <1>1, <1>6, <2>1, <2>2 DEF Begin, BlocksInv
  <1>7. ASSUME NEW t \in Tokens \cup {NoToken}, Post(t)
        PROVE  BlocksInv' /\ Whole'
    BY <1>1, <1>7 DEF Post, BlocksInv
  <1>8. ASSUME NEW on \in BOOLEAN, SetDelayedResponse(on)
        PROVE  BlocksInv' /\ Whole'
    BY <1>1, <1>8 DEF SetDelayedResponse, BlocksInv, server
  <1>9. ASSUME SendDelayedPostResponse \/ GiveUp
        PROVE  BlocksInv' /\ Whole'
    BY <1>1, <1>9 DEF SendDelayedPostResponse, GiveUp, BlocksInv, resource
  <1> QED
    BY <1>3, <1>4, <1>5, <1>6, <1>7, <1>8, <1>9 DEF Next

-----------------------------------------------------------------------------
(* Executions.                                                             *)

\* Tokens are those of requests, and a resource that is gone executes nothing.
PostInv ==
    /\ alive \subseteq Objects
    /\ delayed \in BOOLEAN
    /\ token \in Tokens \cup {NoToken}
    /\ executing \in Nat
    /\ awaiting \subseteq Tokens \cup {NoToken} /\ IsFiniteSet(awaiting)
    /\ Resource \notin alive => executing = 0

LEMMA PostsAreTyped ==
    ASSUME PostInv, Next
    PROVE  PostInv'
  <1>1. ASSUME NEW object \in Objects, Create(object)
        PROVE  PostInv'
    BY <1>1 DEF Create, PostInv, resource, server
  <1>2. ASSUME NEW object \in Objects, Destroy(object)
        PROVE  PostInv'
    <2>1. CASE object = Resource
      <3>1. IsFiniteSet({})
        BY FS_EmptySet
      <3>2. /\ alive' = alive \ {object} /\ ~delayed' /\ delayed' \in BOOLEAN
            /\ token' = NoToken /\ executing' = 0 /\ awaiting' = {}
        BY <1>2, <2>1 DEF Destroy
      <3>3. IsFiniteSet(awaiting')
        BY <3>1, <3>2
      <3> QED
        BY <3>2, <3>3 DEF PostInv
    <2>2. CASE object # Resource
      BY <1>2, <2>2 DEF Destroy, PostInv, resource, server
    <2> QED
      BY <2>1, <2>2
  <1>3. ASSUME NEW s \in Settings, Set(s[1], s[2], s[3])
        PROVE  PostInv'
    BY <1>3 DEF Set, PostInv, server
  <1>4. ASSUME NEW k, NEW size1, PutBlock(k, size1)
        PROVE  PostInv'
    BY <1>4 DEF PutBlock, HandlePut, PostInv
  <1>5. ASSUME NEW t, NEW options, NEW size1, PutPlain(t, options, size1)
        PROVE  PostInv'
    BY <1>5 DEF PutPlain, HandlePut, PostInv
  <1>6. ASSUME NEW t, Begin(t)
        PROVE  PostInv'
    BY <1>6 DEF Begin, PostInv, resource
  <1>7. ASSUME NEW t \in Tokens \cup {NoToken}, Post(t)
        PROVE  PostInv'
    <2>1. IsFiniteSet(awaiting \cup {t})
      BY FS_AddElement DEF PostInv
    <2>2. DelayedToken(token, t) \in Tokens \cup {NoToken}
      BY DEF DelayedToken, PostInv
    <2>3. Resource \in alive /\ UNCHANGED <<alive, delayed>>
      BY <1>7 DEF Post
    <2>4. CASE delayed
      <3>1. /\ token' = DelayedToken(token, t) /\ awaiting' = awaiting \cup {t}
            /\ executing' = executing + (IF Executes THEN 1 ELSE 0)
        BY <1>7, <2>4 DEF Post
      <3>2. executing' \in Nat
        BY <3>1 DEF PostInv
      <3> QED
        BY <2>1, <2>2, <2>3, <3>1, <3>2 DEF PostInv
    <2>5. CASE ~delayed
      BY <1>7, <2>3, <2>5 DEF Post, PostInv
    <2> QED
      BY <2>4, <2>5
  <1>8. ASSUME NEW on \in BOOLEAN, SetDelayedResponse(on)
        PROVE  PostInv'
    BY <1>8 DEF SetDelayedResponse, PostInv, server
  <1>9. ASSUME SendDelayedPostResponse
        PROVE  PostInv'
    <2>1. IsFiniteSet(awaiting \ {token})
      BY FS_RemoveElement DEF PostInv
    <2> QED
      BY <1>9, <2>1 DEF SendDelayedPostResponse, PostInv, resource
  <1>10. ASSUME GiveUp
         PROVE  PostInv'
    BY <1>10, FS_EmptySet DEF GiveUp, PostInv, resource
  <1> QED
    BY <1>1, <1>2, <1>3, <1>4, <1>5, <1>6, <1>7, <1>8, <1>9, <1>10 DEF Next

-----------------------------------------------------------------------------
(* Callbacks. The list is a map: at most one association for an object and *)
(* a type.                                                                 *)

Associations == [object : Objects, type : Types, callback : Callbacks]

Listed(list, k, o, t) == list[k].object = o /\ list[k].type = t

\* The list holds what map says, and each of it once.
IsMap(list, map) ==
    /\ list \in Seq(Associations)
    /\ map \in [Objects \X Types -> Callbacks \cup {NoCallback}]
    /\ \A o \in Objects, t \in Types :
           \A j, k \in 1..Len(list) : Listed(list, j, o, t) /\ Listed(list, k, o, t) => j = k
    /\ \A o \in Objects, t \in Types : \A k \in 1..Len(list) :
           Listed(list, k, o, t) => list[k].callback = map[<<o, t>>]
    /\ \A o \in Objects, t \in Types :
           map[<<o, t>>] # NoCallback => \E k \in 1..Len(list) : Listed(list, k, o, t)

LEMMA Found ==
    ASSUME NEW list, NEW map, IsMap(list, map), NEW o \in Objects, NEW t \in Types
    PROVE  /\ Matches(list, o, t) = {} => map[<<o, t>>] = NoCallback
           /\ Matches(list, o, t) # {} =>
                  /\ Min(Matches(list, o, t)) \in 1..Len(list)
                  /\ Listed(list, Min(Matches(list, o, t)), o, t)
                  /\ list[Min(Matches(list, o, t))].callback = map[<<o, t>>]
                  /\ map[<<o, t>>] # NoCallback
  <1> DEFINE found == Matches(list, o, t)
  <1>1. DOMAIN list = 1..Len(list)
    BY DEF IsMap
  <1>2. \A k : k \in found <=> k \in 1..Len(list) /\ Listed(list, k, o, t)
    BY <1>1 DEF Matches, Listed
  <1> HIDE DEF found
  <1>3. ASSUME NEW k \in found
        PROVE  Min(found) = k
    <2>1. found = {k}
      BY <1>2 DEF IsMap
    <2>2. k \in Int
      BY <1>2 DEF IsMap
    <2> QED
      BY <2>1, <2>2 DEF Min
  <1>4. found = {} => map[<<o, t>>] = NoCallback
    BY <1>2 DEF IsMap
  <1>5. ASSUME NEW k \in found
        PROVE  list[k].callback = map[<<o, t>>] /\ map[<<o, t>>] # NoCallback
    <2>1. k \in 1..Len(list) /\ Listed(list, k, o, t)
      BY <1>2
    <2>2. list[k] \in Associations
      BY <2>1 DEF IsMap
    <2>3. list[k].callback \in Callbacks
      BY <2>2 DEF Associations
    <2> QED
      BY <2>1, <2>3, RequestsAssumption DEF IsMap
  <1> QED
    BY <1>2, <1>3, <1>4, <1>5 DEF found

\* do_get_callback()
LEMMA GetsTheMap ==
    ASSUME NEW list, NEW map, IsMap(list, map), NEW o \in Objects, NEW t \in Types
    PROVE  GetCallback(list, o, t) = map[<<o, t>>]
  BY Found DEF GetCallback

\* do_remove_callback()
LEMMA RemovesOne ==
    ASSUME NEW list, NEW map, IsMap(list, map), NEW o \in Objects, NEW t \in Types
    PROVE  IsMap(RemoveCallback(list, o, t), [map EXCEPT ![<<o, t>>] = NoCallback])
  <1> DEFINE found == Matches(list, o, t)
             i == Min(found)
             rest == RemoveAt(list, i)
             others == [map EXCEPT ![<<o, t>>] = NoCallback]
  <1>1. others \in [Objects \X Types -> Callbacks \cup {NoCallback}]
    BY DEF IsMap
  <1>2. CASE found = {}
    <2>1. map[<<o, t>>] = NoCallback
      BY <1>2, Found
    <2>2. others = map
      BY <2>1 DEF IsMap
    <2> QED
      BY <1>2, <2>2 DEF RemoveCallback
  <1>3. CASE found # {}
    <2>1. i \in 1..Len(list) /\ Listed(list, i, o, t)
      BY <1>3, Found
    <2> HIDE DEF i
    <2> DEFINE n == Len(list)
               front == SubSeq(list, 1, i - 1)
               back == SubSeq(list, i + 1, n)
               old == [k \in 1..(n - 1) |-> IF k < i THEN k ELSE k + 1]
    <2>2. n \in Nat /\ i \in 1..n
      BY <2>1 DEF IsMap
    <2>3. list \in Seq(Associations)
      BY DEF IsMap
    <2>4. /\ front \in Seq(Associations) /\ Len(front) = i - 1
          /\ \A k \in 1..(i - 1) : front[k] = list[k]
      BY <2>2, <2>3
    <2>5. /\ back \in Seq(Associations) /\ Len(back) = n - i
          /\ \A k \in 1..(n - i) : back[k] = list[k + i]
      BY <2>2, <2>3
    <2>6. rest = front \o back
      BY DEF RemoveAt
    <2> HIDE DEF n, rest, front, back
    <2>7. /\ rest \in Seq(Associations) /\ Len(rest) = n - 1
          /\ \A k \in 1..(n - 1) : rest[k] = IF k < i THEN list[k] ELSE list[k + 1]
      BY <2>2, <2>4, <2>5, <2>6
    <2>8. /\ \A k \in 1..(n - 1) : /\ old[k] \in 1..n /\ old[k] # i
                                  /\ rest[k] = list[old[k]]
          /\ \A j, k \in 1..(n - 1) : old[j] = old[k] => j = k
          /\ \A j \in 1..n : j # i => \E k \in 1..(n - 1) : old[k] = j
      <3>1. \A k \in 1..(n - 1) : /\ old[k] \in 1..n /\ old[k] # i
                                 /\ rest[k] = list[old[k]]
        BY <2>2, <2>7
      <3>2. \A j, k \in 1..(n - 1) : old[j] = old[k] => j = k
        BY <2>2
      <3>3. ASSUME NEW j \in 1..n, j # i
            PROVE  \E k \in 1..(n - 1) : old[k] = j
        <4>1. CASE j < i
          <5>1. j \in 1..(n - 1) /\ old[j] = j
            BY <2>2, <4>1
          <5> QED
            BY <5>1
        <4>2. CASE ~(j < i)
          <5>1. j - 1 \in 1..(n - 1) /\ old[j - 1] = j
            BY <2>2, <3>3, <4>2
          <5> QED
            BY <5>1
        <4> QED
          BY <4>1, <4>2
      <3> QED
        BY <3>1, <3>2, <3>3
    <2> HIDE DEF old
    <2>9. \A a \in Objects, b \in Types :
              \A j, k \in 1..Len(rest) : Listed(rest, j, a, b) /\ Listed(rest, k, a, b) => j = k
      <3> SUFFICES ASSUME NEW a \in Objects, NEW b \in Types,
                          NEW j \in 1..Len(rest), NEW k \in 1..Len(rest),
                          Listed(rest, j, a, b), Listed(rest, k, a, b)
                   PROVE  j = k
        OBVIOUS
      <3>1. /\ j \in 1..(n - 1) /\ old[j] \in 1..n /\ Listed(list, old[j], a, b)
            /\ k \in 1..(n - 1) /\ old[k] \in 1..n /\ Listed(list, old[k], a, b)
        BY <2>7, <2>8 DEF Listed
      <3>2. old[j] = old[k]
        BY <3>1 DEF IsMap, n
      <3> QED
        BY <2>8, <3>1, <3>2
    <2>10. \A a \in Objects, b \in Types : \A k \in 1..Len(rest) :
              Listed(rest, k, a, b) => rest[k].callback = others[<<a, b>>]
      <3> SUFFICES ASSUME NEW a \in Objects, NEW b \in Types, NEW k \in 1..Len(rest),
                          Listed(rest, k, a, b)
                   PROVE  rest[k].callback = others[<<a, b>>]
        OBVIOUS
      <3>1. old[k] \in 1..n /\ old[k] # i /\ rest[k] = list[old[k]]
        BY <2>7, <2>8
      <3>2. Listed(list, old[k], a, b) /\ list[old[k]].callback = map[<<a, b>>]
        BY <3>1 DEF IsMap, Listed, n
      <3>3. <<a, b>> # <<o, t>>
        BY <2>1, <2>2, <3>1, <3>2 DEF IsMap, n
      <3> QED
        BY <3>1, <3>2, <3>3 DEF IsMap
    <2>11. \A a \in Objects, b \in Types :
              others[<<a, b>>] # NoCallback => \E k \in 1..Len(rest) : Listed(rest, k, a, b)
      <3> SUFFICES ASSUME NEW a \in Objects, NEW b \in Types, others[<<a, b>>] # NoCallback
                   PROVE  \E k \in 1..Len(rest) : Listed(rest, k, a, b)
        OBVIOUS
      <3>1. <<a, b>> # <<o, t>> /\ map[<<a, b>>] # NoCallback
        BY DEF IsMap
      <3>2. PICK j \in 1..n : Listed(list, j, a, b)
        BY <3>1 DEF IsMap, n
      <3>3. j # i
        BY <2>1, <3>1, <3>2 DEF Listed
      <3> QED
        BY <2>7, <2>8, <3>2, <3>3 DEF Listed
    <2> QED
      BY <1>1, <1>3, <2>7, <2>9, <2>10, <2>11 DEF RemoveCallback, IsMap, rest, i
  <1> QED
    BY <1>2, <1>3

\* do_add_callback() for an object that has none of the type.
LEMMA AddsOne ==
    ASSUME NEW list, NEW map, IsMap(list, map), NEW o \in Objects, NEW t \in Types,
           map[<<o, t>>] = NoCallback, NEW c \in Callbacks
    PROVE  IsMap(AddCallback(list, o, t, c), [map EXCEPT ![<<o, t>>] = c])
  <1> DEFINE new == Association(o, t, c)
             longer == Append(list, new)
             more == [map EXCEPT ![<<o, t>>] = c]
  <1>1. new \in Associations /\ new.object = o /\ new.type = t /\ new.callback = c
    BY DEF Association, Associations
  <1>2. \A k \in 1..Len(list) : ~Listed(list, k, o, t)
    <2> SUFFICES ASSUME NEW k \in 1..Len(list), Listed(list, k, o, t)
                 PROVE  FALSE
      OBVIOUS
    <2>1. k \in Matches(list, o, t)
      BY DEF Matches, Listed, IsMap
    <2> QED
      BY <2>1, Found
  <1>3. AddCallback(list, o, t, c) = longer
    BY <1>1, <1>2 DEF AddCallback, Contains, Listed
  <1> HIDE DEF new
  <1>4. /\ longer \in Seq(Associations) /\ Len(longer) = Len(list) + 1
        /\ \A k \in 1..Len(list) : longer[k] = list[k]
        /\ longer[Len(list) + 1] = new
    BY <1>1 DEF IsMap
  <1>5. more \in [Objects \X Types -> Callbacks \cup {NoCallback}]
    BY DEF IsMap
  <1>6. Len(list) \in Nat
    BY DEF IsMap
  <1> HIDE DEF longer
  <1>7. \A a \in Objects, b \in Types :
            \A j, k \in 1..Len(longer) : Listed(longer, j, a, b) /\ Listed(longer, k, a, b) => j = k
    BY <1>1, <1>2, <1>4, <1>6 DEF IsMap, Listed
  <1>8. \A a \in Objects, b \in Types : \A k \in 1..Len(longer) :
            Listed(longer, k, a, b) => longer[k].callback = more[<<a, b>>]
    BY <1>1, <1>2, <1>4, <1>6 DEF IsMap, Listed
  <1>9. ASSUME NEW a \in Objects, NEW b \in Types, more[<<a, b>>] # NoCallback
        PROVE  \E k \in 1..Len(longer) : Listed(longer, k, a, b)
    <2>1. CASE a = o /\ b = t
      <3>1. Len(list) + 1 \in 1..Len(longer)
        BY <1>4, <1>6
      <3> QED
        BY <1>1, <1>4, <2>1, <3>1 DEF Listed
    <2>2. CASE ~(a = o /\ b = t)
      <3>1. map[<<a, b>>] # NoCallback
        BY <1>9, <2>2 DEF IsMap
      <3>2. PICK k \in 1..Len(list) : Listed(list, k, a, b)
        BY <3>1 DEF IsMap
      <3> QED
        BY <1>4, <1>6, <3>2 DEF Listed
    <2> QED
      BY <2>1, <2>2
  <1> QED
    BY <1>3, <1>4, <1>5, <1>7, <1>8, <1>9 DEF IsMap

\* Induction over the numbers, for a set of them.
LEMMA SetOfNumbers ==
    ASSUME NEW S \in SUBSET Nat, 0 \in S, \A n \in S : n + 1 \in S
    PROVE  S = Nat
  <1> SUFFICES ASSUME S # Nat
               PROVE  FALSE
    OBVIOUS
  <1> DEFINE less == OpToRel(<, Nat)
             T == Nat \ S
  <1>1. IsWellFoundedOn(less, Nat)
    BY NatLessThanWellFounded
  <1>2. \A x, y \in Nat : y < x => <<y, x>> \in less
    BY DEF OpToRel
  <1> HIDE DEF less
  <1>3. T \subseteq Nat /\ T # {}
    OBVIOUS
  <1>4. PICK x \in T : \A y \in T : ~(<<y, x>> \in less)
    BY <1>1, <1>3, WFMin
  <1>5. x # 0 /\ x - 1 \in Nat /\ x - 1 < x
    OBVIOUS
  <1>6. x - 1 \in S
    BY <1>2, <1>4, <1>5
  <1> QED
    BY <1>4, <1>5, <1>6

\* The destructors: the list after the callbacks of the types in a set are removed, from
\* those after one less.
First(s) == CHOOSE t \in s : TRUE

Removal(g, list, object) ==
    [s \in SUBSET Types |-> IF s = {} THEN list
                            ELSE RemoveCallback(g[s \ {First(s)}], object, First(s))]

LEMMA RemovalIsTheFold ==
    ASSUME NEW list, NEW object
    PROVE  RemoveCallbacks(list, object) = (CHOOSE g : g = Removal(g, list, object))[Types]
  BY DEF RemoveCallbacks, FoldSet, MapThenFoldSet, Removal, First

LEMMA RemovalExists ==
    ASSUME NEW list, NEW object
    PROVE  \E g : g = Removal(g, list, object)
  <1> DEFINE G(g) == Removal(g, list, object)
             Small(n) == {s \in SUBSET Types : Cardinality(s) <= n}
             Good(g, n) == g = [s \in SUBSET Types |-> g[s]] /\ \A s \in Small(n) : g[s] = G(g)[s]
             S == {n \in Nat : \E g : Good(g, n)}
  <1>1. \A s \in SUBSET Types : IsFiniteSet(s) /\ Cardinality(s) \in Nat
    BY RequestsAssumption, FS_Subset, FS_CardinalityType
  <1>2. \A s \in SUBSET Types : s # {} =>
            /\ s \ {First(s)} \in SUBSET Types
            /\ Cardinality(s \ {First(s)}) = Cardinality(s) - 1
    BY <1>1, FS_RemoveElement DEF First
  <1>3. \A g, h, s : s \in SUBSET Types /\ (s # {} => g[s \ {First(s)}] = h[s \ {First(s)}])
                        => G(g)[s] = G(h)[s]
    BY DEF Removal
  <1>4. \A g : G(g) = [s \in SUBSET Types |-> G(g)[s]]
    BY DEF Removal
  <1> HIDE DEF G
  <1>5. 0 \in S
    <2> DEFINE g == G({})
    <2>1. \A s \in Small(0) : s = {}
      BY <1>1, FS_EmptySet
    <2>2. \A s \in Small(0) : g[s] = G(g)[s]
      BY <1>3, <2>1
    <2>3. Good(g, 0)
      BY <1>4, <2>2
    <2> QED
      BY <2>3
  <1>6. ASSUME NEW n \in S
        PROVE  n + 1 \in S
    <2>1. PICK g : Good(g, n)
      OBVIOUS
    <2> DEFINE h == G(g)
    <2>2. ASSUME NEW s \in Small(n + 1)
          PROVE  h[s] = G(h)[s]
      <3>1. ASSUME s # {}
            PROVE  g[s \ {First(s)}] = h[s \ {First(s)}]
        <4>1. s \ {First(s)} \in Small(n)
          BY <1>1, <1>2, <3>1
        <4> QED
          BY <2>1, <4>1
      <3> QED
        BY <1>3, <3>1
    <2>3. Good(h, n + 1)
      BY <1>4, <2>2
    <2> HIDE DEF Good, h
    <2>4. n + 1 \in Nat
      OBVIOUS
    <2> QED
      BY <2>3, <2>4
  <1>7. S = Nat
    BY <1>5, <1>6, SetOfNumbers
  <1>8. PICK g : Good(g, Cardinality(Types))
    BY <1>1, <1>7
  <1>9. \A s \in SUBSET Types : s \in Small(Cardinality(Types))
    BY RequestsAssumption, FS_Subset
  <1>10. g = G(g)
    <2>1. \A s \in SUBSET Types : g[s] = G(g)[s]
      BY <1>8, <1>9
    <2> QED
      BY <1>4, <1>8, <2>1
  <1> QED
    BY <1>10 DEF G

\* ~M2MResourceBase() and ~M2MBase(): nothing of the object is left.
LEMMA RemovesAll ==
    ASSUME NEW list, NEW map, IsMap(list, map), NEW object \in Objects
    PROVE  IsMap(RemoveCallbacks(list, object),
                 [p \in Objects \X Types |-> IF p[1] = object THEN NoCallback ELSE map[p]])
  <1> DEFINE Left(s) == [p \in Objects \X Types |->
                            IF p[1] = object /\ p[2] \in s THEN NoCallback ELSE map[p]]
             f == CHOOSE g : g = Removal(g, list, object)
             All(n) == \A s \in SUBSET Types : Cardinality(s) = n => IsMap(f[s], Left(s))
             S == {n \in Nat : All(n)}
  <1>1. f = Removal(f, list, object)
    BY RemovalExists
  <1> HIDE DEF f
  <1>2. f[{}] = list
    BY <1>1 DEF Removal
  <1>3. \A s \in SUBSET Types : s # {} =>
            f[s] = RemoveCallback(f[s \ {First(s)}], object, First(s))
    BY <1>1 DEF Removal
  <1>4. \A s \in SUBSET Types : IsFiniteSet(s)
    BY RequestsAssumption, FS_Subset
  <1>5. Left({}) = map
    BY DEF IsMap
  <1>6. \A s \in SUBSET Types : \A t \in s :
            Left(s) = [Left(s \ {t}) EXCEPT ![<<object, t>>] = NoCallback]
    <2> SUFFICES ASSUME NEW s \in SUBSET Types, NEW t \in s
                 PROVE  Left(s) = [Left(s \ {t}) EXCEPT ![<<object, t>>] = NoCallback]
      OBVIOUS
    <2>1. \A p \in Objects \X Types : p = <<p[1], p[2]>>
      OBVIOUS
    <2> QED
      BY <2>1
  <1>7. Left(Types) = [p \in Objects \X Types |-> IF p[1] = object THEN NoCallback ELSE map[p]]
    OBVIOUS
  <1> HIDE DEF Left
  <1>8. All(0)
    BY <1>2, <1>4, <1>5, FS_EmptySet
  <1>9. ASSUME NEW n \in Nat, All(n)
        PROVE  All(n + 1)
    <2> SUFFICES ASSUME NEW s \in SUBSET Types, Cardinality(s) = n + 1
                 PROVE  IsMap(f[s], Left(s))
      OBVIOUS
    <2> DEFINE t == First(s)
               r == s \ {t}
    <2>1. s # {}
      BY FS_EmptySet
    <2>2. t \in s /\ t \in Types
      BY <2>1 DEF First
    <2>3. f[s] = RemoveCallback(f[r], object, t)
      BY <1>3, <2>1
    <2> HIDE DEF t
    <2>4. Cardinality(r) = n
      <3>1. IsFiniteSet(s)
        BY <1>4
      <3>2. Cardinality(r) = Cardinality(s) - 1
        BY <2>2, <3>1, FS_RemoveElement
      <3> QED
        BY <3>2
    <2>5. IsMap(f[r], Left(r))
      BY <1>9, <2>4
    <2>6. Left(s) = [Left(r) EXCEPT ![<<object, t>>] = NoCallback]
      BY <1>6, <2>2
    <2> HIDE DEF r
    <2>7. IsMap(RemoveCallback(f[r], object, t), [Left(r) EXCEPT ![<<object, t>>] = NoCallback])
      BY <2>2, <2>5, RemovesOne
    <2> QED
      BY <2>3, <2>6, <2>7
  <1> HIDE DEF All
  <1>10. S = Nat
    <2>1. S \in SUBSET Nat /\ 0 \in S
      BY <1>8
    <2>2. \A n \in S : n + 1 \in S
      BY <1>9
    <2> HIDE DEF S
    <2> QED
      BY <2>1, <2>2, SetOfNumbers
  <1>11. All(Cardinality(Types))
    BY <1>10, FS_CardinalityType, RequestsAssumption
  <1>12. IsMap(f[Types], Left(Types))
    BY <1>11 DEF All
  <1>13. RemoveCallbacks(list, object) = f[Types]
    BY RemovalIsTheFold DEF f
  <1> QED
    BY <1>7, <1>12, <1>13

\* The list is no longer than a map of all objects and types.
LEMMA FewAssociations ==
    ASSUME NEW list, NEW map, IsMap(list, map)
    PROVE  Len(list) <= Cardinality(Objects) * Cardinality(Types)
  <1> DEFINE keys == Objects \X Types
             f == [k \in 1..Len(list) |-> <<list[k].object, list[k].type>>]
  <1>1. Len(list) \in Nat /\ \A k \in 1..Len(list) : list[k] \in Associations
    BY DEF IsMap
  <1>2. \A k \in 1..Len(list) : list[k].object \in Objects /\ list[k].type \in Types
    BY <1>1 DEF Associations
  <1>3. f \in [1..Len(list) -> keys]
    BY <1>2
  <1>4. ASSUME NEW j \in 1..Len(list), NEW k \in 1..Len(list), f[j] = f[k]
        PROVE  j = k
    <2>1. list[j].object = list[k].object /\ list[j].type = list[k].type
      BY <1>4
    <2> QED
      BY <1>2, <2>1 DEF IsMap, Listed
  <1>5. f \in Injection(1..Len(list), keys)
    BY <1>3, <1>4 DEF Injection, IsInjective
  <1>6. IsFiniteSet(keys) /\ Cardinality(keys) = Cardinality(Objects) * Cardinality(Types)
    <2>1. IsFiniteSet(Objects)
      BY FS_Singleton, FS_Union, RequestsAssumption DEF Objects
    <2> QED
      BY <2>1, FS_Product, RequestsAssumption
  <1> HIDE DEF f, keys
  <1>7. Cardinality(1..Len(list)) <= Cardinality(keys)
    BY <1>5, <1>6, FS_Injection
  <1>8. Cardinality(1..Len(list)) = Len(list)
    <2> DEFINE n == Len(list)
    <2>1. n \in Nat
      BY <1>1
    <2> HIDE DEF n
    <2>2. Cardinality(1..n) = IF 1 > n THEN 0 ELSE n - 1 + 1
      BY <2>1, FS_Interval
    <2> QED
      BY <2>1, <2>2 DEF n
  <1> QED
    BY <1>6, <1>7, <1>8

LEMMA SetsOne ==
    ASSUME IsMap(callbacks, set), NEW o \in Objects, NEW t \in Types, NEW c \in Callbacks
    PROVE  IsMap(SetCallback(callbacks, o, t, c), [set EXCEPT ![<<o, t>>] = c])
  <1> DEFINE list == RemoveCallback(callbacks, o, t)
             map == [set EXCEPT ![<<o, t>>] = NoCallback]
  <1>1. IsMap(list, map)
    BY RemovesOne
  <1>2. map[<<o, t>>] = NoCallback
    BY DEF IsMap
  <1>3. [map EXCEPT ![<<o, t>>] = c] = [set EXCEPT ![<<o, t>>] = c]
    BY DEF IsMap
  <1>4. SetCallback(callbacks, o, t, c) = AddCallback(list, o, t, c)
    BY DEF SetCallback
  <1> HIDE DEF list, map
  <1>5. IsMap(AddCallback(list, o, t, c), [map EXCEPT ![<<o, t>>] = c])
    BY <1>1, <1>2, AddsOne
  <1> QED
    BY <1>3, <1>4, <1>5

LEMMA CallbacksStayCurrent ==
    ASSUME IsMap(callbacks, set), Next
    PROVE  IsMap(callbacks', set')
  <1>1. ASSUME UNCHANGED <<callbacks, set>>
        PROVE  IsMap(callbacks', set')
    BY <1>1
  <1>2. ASSUME NEW object \in Objects, Destroy(object)
        PROVE  IsMap(callbacks', set')
    <2>1. /\ callbacks' = RemoveCallbacks(callbacks, object)
          /\ set' = [s \in Objects \X Types |-> IF s[1] = object THEN NoCallback ELSE set[s]]
      BY <1>2 DEF Destroy
    <2> QED
      BY <2>1, RemovesAll
  <1>3. ASSUME NEW s \in Settings, Set(s[1], s[2], s[3])
        PROVE  IsMap(callbacks', set')
    <2>1. s[1] \in Objects /\ s[2] \in Types /\ s[3] \in Callbacks
      BY RequestsAssumption
    <2>2. /\ callbacks' = SetCallback(callbacks, s[1], s[2], s[3])
          /\ set' = [set EXCEPT ![<<s[1], s[2]>>] = s[3]]
      BY <1>3 DEF Set
    <2>3. IsMap(SetCallback(callbacks, s[1], s[2], s[3]), [set EXCEPT ![<<s[1], s[2]>>] = s[3]])
      BY <2>1, SetsOne
    <2> QED
      BY <2>2, <2>3
  <1>4. ASSUME NEW object, Create(object)
        PROVE  UNCHANGED <<callbacks, set>>
    BY <1>4 DEF Create
  <1>5. ASSUME NEW k, NEW size1, PutBlock(k, size1)
        PROVE  UNCHANGED <<callbacks, set>>
    BY <1>5 DEF PutBlock, HandlePut
  <1>6. ASSUME NEW t, NEW options, NEW size1, PutPlain(t, options, size1)
        PROVE  UNCHANGED <<callbacks, set>>
    BY <1>6 DEF PutPlain, HandlePut
  <1>7. ASSUME NEW t, Begin(t) \/ Post(t)
        PROVE  UNCHANGED <<callbacks, set>>
    BY <1>7 DEF Begin, Post
  <1>8. ASSUME NEW on, SetDelayedResponse(on)
        PROVE  UNCHANGED <<callbacks, set>>
    BY <1>8 DEF SetDelayedResponse
  <1>9. ASSUME SendDelayedPostResponse \/ GiveUp
        PROVE  UNCHANGED <<callbacks, set>>
    BY <1>9 DEF SendDelayedPostResponse, GiveUp
  <1> QED
    BY <1>1, <1>2, <1>3, <1>4, <1>5, <1>6, <1>7, <1>8, <1>9 DEF Next

-----------------------------------------------------------------------------
(* The theorems.                                                           *)

\* Values are whole, requests typed and the list is a map: three parts that do not
\* need each other.
RequestsInv ==
    /\ BlocksInv /\ Whole
    /\ PostInv
    /\ IsMap(callbacks, set)

LEMMA InitRequests == Init => RequestsInv
  <1> SUFFICES ASSUME Init
               PROVE  RequestsInv
    OBVIOUS
  <1>1. BlocksInv
    <2>1. PICK t \in Transfers : transfer = [value |-> t, next |-> 0]
      BY DEF Init
    <2>2. transfer \in [value : Transfers, next : 0..3] /\ ~(transfer.next > 0)
      BY <2>1
    <2>3. message = NoMessage /\ value = NoData /\ stored = Empty
      BY DEF Init
    <2>4. Empty \in [0..2 -> Values \cup {NoData}]
      BY DEF Empty
    <2> QED
      BY <2>2, <2>3, <2>4, NewMessages DEF BlocksInv
  <1>2. Whole
    BY DEF Init, Whole, CombinedIsComplete, UpdatedIsComplete, Nothing
  <1>3. PostInv
    <2>1. /\ alive = {} /\ delayed \in BOOLEAN /\ token = NoToken
          /\ executing = 0 /\ awaiting = {}
      BY DEF Init
    <2>2. IsFiniteSet(awaiting)
      BY <2>1, FS_EmptySet
    <2> QED
      BY <2>1, <2>2 DEF PostInv
  <1>4. IsMap(callbacks, set)
    <2>1. <<>> \in Seq(Associations) /\ Len(<<>>) = 0
      OBVIOUS
    <2>2. callbacks = <<>> /\ set = [s \in Objects \X Types |-> NoCallback]
      BY DEF Init
    <2>3. set \in [Objects \X Types -> Callbacks \cup {NoCallback}]
      BY <2>2
    <2>4. \A o \in Objects, t \in Types : set[<<o, t>>] = NoCallback
      BY <2>2
    <2> QED
      BY <2>1, <2>2, <2>3, <2>4 DEF IsMap
  <1> QED
    BY <1>1, <1>2, <1>3, <1>4 DEF RequestsInv

LEMMA StutterRequests ==
    ASSUME UNCHANGED vars
    PROVE  RequestsInv => RequestsInv'
  <1>1. UNCHANGED <<alive, callbacks, message, value, delayed, token, set, stored, executing,
                    transfer, awaiting, done>>
    BY DEF vars, resource, server
  <1>2. (BlocksInv => BlocksInv') /\ (Whole => Whole')
    BY <1>1 DEF BlocksInv, Whole, CombinedIsComplete, UpdatedIsComplete
  <1>3. PostInv => PostInv'
    BY <1>1 DEF PostInv
  <1>4. IsMap(callbacks, set) => IsMap(callbacks', set')
    BY <1>1
  <1> QED
    BY <1>2, <1>3, <1>4 DEF RequestsInv

LEMMA NextRequests == RequestsInv /\ [Next]_vars => RequestsInv'
  <1>1. ASSUME RequestsInv, Next
        PROVE  RequestsInv'
    <2>1. BlocksInv' /\ Whole'
      BY <1>1, OthersKeepBlocks, PutBlockKeeps, PutPlainKeeps DEF RequestsInv
    <2>2. PostInv'
      BY <1>1, PostsAreTyped DEF RequestsInv
    <2>3. IsMap(callbacks', set')
      BY <1>1, CallbacksStayCurrent DEF RequestsInv
    <2> QED
      BY <2>1, <2>2, <2>3 DEF RequestsInv
  <1> QED
    BY <1>1, StutterRequests

LEMMA AlwaysRequests == Spec => []RequestsInv
  BY InitRequests, NextRequests, PTL DEF Spec

\* Every variable keeps its type; the list of callbacks never grows beyond one for
\* each object and type (do_add_callback(), do_remove_callback()).
THEOREM RequestTypes == Spec => []TypeOK
  <1>1. RequestsInv => TypeOK
    <2> SUFFICES ASSUME RequestsInv
                 PROVE  TypeOK
      OBVIOUS
    <2>1. Len(callbacks) <= Cardinality(Objects) * Cardinality(Types)
      BY FewAssociations DEF RequestsInv
    <2>2. ASSUME NEW k \in DOMAIN callbacks
          PROVE  /\ <<callbacks[k].object, callbacks[k].type>> \in Objects \X Types
                 /\ callbacks[k].callback \in Callbacks
      <3>1. callbacks[k] \in Associations
        BY DEF RequestsInv, IsMap
      <3> QED
        BY <3>1 DEF Associations
    <2>3. message.total_size \in {0} \cup Sizes /\ message.data \in Values \cup {NoData}
      BY DEF RequestsInv, BlocksInv, Kept, Message
    <2> QED
      BY <2>1, <2>2, <2>3 DEF TypeOK, RequestsInv, BlocksInv, PostInv
  <1> QED
    BY <1>1, AlwaysRequests, PTL

\* What is called for an object is what was set last for it, whatever was set, removed
\* or made at its address before (M2MCallbackStorage, ~M2MResourceBase(), ~M2MBase()).
THEOREM CallbacksAreThoseSet == Spec => []CallbacksAreCurrent
  <1>1. RequestsInv => CallbacksAreCurrent
    BY GetsTheMap DEF RequestsInv, CallbacksAreCurrent
  <1> QED
    BY <1>1, AlwaysRequests, PTL

\* A value that is combined is one that was sent, whatever was repeated, given up or
\* refused before (set_message_info(), clear_values()).
THEOREM CombinedValuesAreWhole == Spec => []CombinedIsComplete
  <1>1. RequestsInv => CombinedIsComplete
    BY DEF RequestsInv, Whole
  <1> QED
    BY <1>1, AlwaysRequests, PTL

\* value_updated() ends a transfer at its last block only (resource_callback()).
THEOREM UpdatesEndTransfers == Spec => []UpdatedIsComplete
  <1>1. RequestsInv => UpdatedIsComplete
    BY DEF RequestsInv, Whole
  <1> QED
    BY <1>1, AlwaysRequests, PTL

=============================================================================
