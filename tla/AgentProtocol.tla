--------------------------- MODULE AgentProtocol ----------------------------
(***************************************************************************)
(* The control protocol between the head and the agents (csrc/agent/       *)
(* Protocol.hpp) over TCP.  A stream is the sequence of what was written   *)
(* to it, [is, left]: a header of a command or a payload, and how many     *)
(* bytes of it have not been read.                                         *)
(***************************************************************************)
EXTENDS Naturals, SequencesExt

\* The commands handle_connection has a case for; SHADER_LOAD has none.
Commands == {"PING", "REGISTER", "DEREGISTER", "SHADER_RUN", "SHADER_SYNC",
             "STATS", "SHUTDOWN"}

HeaderSize == 8

\* What handle_connection reads after the header, by the command alone: the
\* WIRE_SIZE of the request.  It does not look at payload_len.
PayloadRead(cmd) ==
  CASE cmd = "REGISTER" -> 8 + 8 + 1
    [] cmd = "DEREGISTER" -> 4
    [] cmd = "SHADER_RUN" -> 64 + 4 + 8 + 4 + 1
    [] OTHER -> 0

\* sizeof(ShaderRunRequest): the fields of WIRE_SIZE, and the padding that
\* aligns element_count and the whole to 8 bytes.
SizeofShaderRun == 64 + 4 + 4 + 8 + 4 + 1 + 3

HeaderOf(is) == [is |-> is, left |-> HeaderSize]

Payload(n) == [is |-> "payload", left |-> n]

\* What follows the header of a response.
PayloadSent(cmd, status) ==
  CASE cmd = "REGISTER" /\ status = "OK" -> 4 + 4
    [] cmd = "STATS" -> 8 + 8 + 8 + 8 + 4 + 8 + 4 + 1
    [] OTHER -> 0

\* A request or a response as it is written: the header of a command or with a
\* status, then bytes of payload.
Message(is, bytes) ==
  IF bytes = 0 THEN <<HeaderOf(is)>> ELSE <<HeaderOf(is), Payload(bytes)>>

BytesIn(s) == FoldSeq(LAMBDA x, n : x.left + n, 0, s)

\* recv_all: the stream without its first n bytes.
Drop(s, n) ==
  LET Past(st, x) ==
        IF st.n >= x.left THEN [st EXCEPT !.n = @ - x.left]
        ELSE [n |-> 0, s |-> Append(st.s, [x EXCEPT !.left = @ - st.n])]
  IN  FoldLeft(Past, [n |-> n, s |-> <<>>], s).s

AtHeader(s) == s[1].is \in Commands /\ s[1].left = HeaderSize

\* The commands that the next eight bytes may be taken for: payload bytes and
\* parts of headers can have any value.
Decoded(s) == IF AtHeader(s) THEN {s[1].is} ELSE Commands \cup {"unknown"}
=============================================================================
