------------------------------ MODULE TokenFence ------------------------------
(***************************************************************************)
(* What the allocators of transfer memory use of the command buffer: a     *)
(* piece of memory freed behind a token may be written again only when the *)
(* service has executed the commands before the token.                     *)
(*                                                                         *)
(* The ring of commands is reduced to what CommandBuffer shows of it: a    *)
(* FIFO stream, here of the SetToken commands still to be executed, each   *)
(* with the memory that the commands before it read.                       *)
(***************************************************************************)
EXTENDS Integers, Sequences

CONSTANTS
    MaxToken,       \* 0x7FFFFFFF
    Size            \* of the memory

ASSUME FenceAssumption == MaxToken \in Nat \ {0} /\ Size \in Nat \ {0}

VARIABLES
    token_,             \* the last token inserted
    last_token_read_,   \* the last one the client knows to be executed
    stream,             \* tokens not yet executed
    executed,           \* the service's token
    lost                \* the context is lost: every FlushSync fails

fenceVars == <<token_, last_token_read_, stream, executed, lost>>

Token == 0..MaxToken

\* A SetToken command, and the memory used by the commands before it.
Command == [token : Token, offset : 0..Size, size : 0..Size]

FenceTypeOK ==
    /\ token_ \in Token
    /\ last_token_read_ \in Token
    /\ stream \in Seq(Command)
    /\ executed \in Token
    /\ lost \in BOOLEAN

\* The state of a helper that has spoken to the service once.
FenceInit ==
    /\ token_ = 0 /\ last_token_read_ = 0 /\ executed = 0
    /\ stream = <<>>
    /\ lost = FALSE

NextToken == (token_ + 1) % (MaxToken + 1)

\* InsertToken, behind commands that use size bytes at offset.  When the tokens
\* wrap, Finish waits until all is executed.  In a lost context it fails, and
\* nothing written to the ring is read any more.
InsertToken(offset, size) ==
    /\ token_' = NextToken
    /\ CASE lost -> UNCHANGED <<stream, executed, last_token_read_>>
         [] ~lost /\ NextToken = 0 ->
              stream' = <<>> /\ executed' = 0 /\ last_token_read_' = 0
         [] OTHER ->
              /\ stream' = Append(stream, [token |-> NextToken, offset |-> offset, size |-> size])
              /\ UNCHANGED <<executed, last_token_read_>>
    /\ UNCHANGED lost

\* Mutant: one token too early.
TokenAwaited_Early(token) == token > token_ \/ last_token_read_ + 1 >= token \/ lost

\* Mutant: tokens from before a wrap are waited for.
TokenAwaited_NoWrap(token) == last_token_read_ >= token \/ lost

\* The condition under which WaitForToken returns: the token is from before a
\* wrap, it has been read, or the flush fails.  On a lost context the code may come to
\* GPU_LOG(FATAL) instead (cmd_buffer_helper.cc:105, get_ = put_): that the process ends is
\* left out here, and found in CommandBuffer, which has get_ and put_.
TokenAwaited(token) == token > token_ \/ last_token_read_ >= token \/ lost

\* The service executes the commands up to the next token.
SetToken ==
    /\ stream # <<>> /\ ~lost
    /\ executed' = Head(stream).token
    /\ stream' = Tail(stream)
    /\ UNCHANGED <<token_, last_token_read_, lost>>

\* A flush, of this client's own or in a wait.
SynchronizeState ==
    /\ last_token_read_' = executed
    /\ UNCHANGED <<token_, stream, executed, lost>>

LoseContext ==
    /\ ~lost /\ lost' = TRUE
    /\ UNCHANGED <<token_, last_token_read_, stream, executed>>

\* Size bytes at offset are not read by commands still to be executed.  A lost
\* context executes nothing more.
Untouched(offset, size) ==
    lost \/ \A i \in 1..Len(stream) :
               offset + size <= stream[i].offset
               \/ stream[i].offset + stream[i].size <= offset
=============================================================================
