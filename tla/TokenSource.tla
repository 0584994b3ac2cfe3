---------------------------- MODULE TokenSource -----------------------------
(***************************************************************************)
(* SharedTokenSource (token_source.rs): one task owns the application's     *)
(* token source and answers the commands of a channel of capacity one, each *)
(* through a oneshot channel of its own.  A caller that gives up leaves its *)
(* command behind.  Commands are numbered; 0 is none.  ConnLifecycle        *)
(* composes this module with the reconnection loop.                         *)
(***************************************************************************)
EXTENDS Integers, Sequences

VARIABLES
    rx_command,   \* the commands in the channel
    serving,      \* the command for which token_source.token() runs
    token_call,   \* SharedTokenSource::token: "none", "send", "wait", "ok" or "err"
    asked,        \* the number of the last call
    token         \* the command the last token was fetched for

TokenInit ==
    /\ rx_command = <<>> /\ serving = 0
    /\ token_call = "none" /\ asked = 0 /\ token = 0

\* token() makes the oneshot channel.
TokenAsk ==
    /\ token_call' = "send" /\ asked' = asked + 1
    /\ UNCHANGED <<rx_command, serving, token>>

\* The command is sent when the channel has room.
TokenSend ==
    /\ token_call = "send" /\ Len(rx_command) < 1
    /\ rx_command' = Append(rx_command, asked)
    /\ token_call' = "wait"
    /\ UNCHANGED <<serving, asked, token>>

\* The call's future is dropped, by a timeout or with its caller.
TokenDrop ==
    /\ token_call' = "none"
    /\ UNCHANGED <<rx_command, serving, asked, token>>

\* The task takes the next command and calls the application.
TokenTake ==
    /\ serving = 0 /\ rx_command # <<>>
    /\ serving' = Head(rx_command)
    /\ rx_command' = Tail(rx_command)
    /\ UNCHANGED <<token_call, asked, token>>

\* Mutant: the result goes to whoever waits.
TokenAnswerAny(result) ==
    /\ serving # 0
    /\ serving' = 0
    /\ IF token_call = "wait"
       THEN token_call' = result /\ token' = serving
       ELSE UNCHANGED <<token_call, token>>
    /\ UNCHANGED <<rx_command, asked>>

\* The application's token() returns: the result goes to the command's own
\* channel, where nobody may be waiting.
TokenAnswer(result) ==
    /\ serving # 0
    /\ serving' = 0
    /\ IF token_call = "wait" /\ serving = asked
       THEN token_call' = result /\ token' = serving
       ELSE UNCHANGED <<token_call, token>>
    /\ UNCHANGED <<rx_command, asked>>
=============================================================================
