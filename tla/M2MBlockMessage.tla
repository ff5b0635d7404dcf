-------------------------- MODULE M2MBlockMessage --------------------------
(***************************************************************************)
(* What M2MBlockMessage keeps of the last block of a transfer. Translated  *)
(* from source/m2mblockmessage.cpp.                                        *)
(***************************************************************************)
EXTENDS Integers

CONSTANT MaxSize   \* SN_COAP_MAX_INCOMING_MESSAGE_SIZE

ASSUME MaxSizeAssumption == MaxSize \in Nat

NoData == <<>>

\* A request without a block1 option, and one without a size1 option.
NoBlock == -1
NoSize == -1

\* The constructor.
NewMessage ==
    [is_block |-> FALSE, block_number |-> 0, is_last |-> FALSE, total_size |-> 0,
     too_large |-> FALSE, data |-> NoData]

\* A request: its block1 option (number and more flag), its size1 option, its
\* payload. Options are looked at only if it has any.
Header(options, block, more, size1, payload) ==
    [options |-> options, block |-> block, more |-> more, size1 |-> size1, payload |-> payload]

\* Mutant: data is copied only where none was kept.
SetMessageInfo_KeepsData(message, header) ==
    LET total == IF header.size1 # NoSize THEN header.size1 ELSE message.total_size
        noted == [message EXCEPT !.is_block = header.block # NoBlock]
    IN  IF ~header.options THEN noted
        ELSE IF total > MaxSize THEN [noted EXCEPT !.total_size = total, !.too_large = TRUE]
        ELSE [noted EXCEPT
                !.total_size = total, !.too_large = FALSE,
                !.is_last = IF header.block # NoBlock THEN ~header.more ELSE @,
                !.block_number = header.block,
                !.data = IF @ = NoData THEN header.payload ELSE @]

\* set_message_info(): the total size stays from one request to the next, and
\* one that is too large leaves what was kept of the block before it.
SetMessageInfo(message, header) ==
    LET total == IF header.size1 # NoSize THEN header.size1 ELSE message.total_size
        noted == [message EXCEPT !.is_block = header.block # NoBlock]
    IN  IF ~header.options THEN noted
        ELSE IF total > MaxSize THEN [noted EXCEPT !.total_size = total, !.too_large = TRUE]
        ELSE [noted EXCEPT
                !.total_size = total, !.too_large = FALSE,
                !.is_last = IF header.block # NoBlock THEN ~header.more ELSE @,
                !.block_number = header.block,
                !.data = header.payload]

\* Mutant: the flag of the last block is not cleared.
ClearValues_KeepsLast(message) ==
    [message EXCEPT !.data = NoData, !.block_number = 0, !.total_size = 0, !.too_large = FALSE]

\* clear_values(): is_block_message() keeps its answer.
ClearValues(message) ==
    [message EXCEPT !.data = NoData, !.block_number = 0, !.total_size = 0, !.is_last = FALSE,
                    !.too_large = FALSE]
=============================================================================
