----------------------------- MODULE CommandLine -----------------------------
(***************************************************************************)
(* How work_uart_data_proc_handler takes a line apart: strtok and atoi on  *)
(* uart_buf_rx, which is never cleared.  A line is written over the start  *)
(* of the buffer, behind it the bytes of earlier lines stay, and the       *)
(* handler looks for "=" and a newline without knowing where the line      *)
(* ends.  A letter stands for a part of a command's name; a string that    *)
(* runs to the end of the buffer ends there.                               *)
(***************************************************************************)
EXTENDS Integers, Sequences
LOCAL INSTANCE SequencesExt

CONSTANTS Letter,    \* what names are made of
          Digit,     \* what numbers are made of
          Size       \* UART_RX_BUF_LEN

ASSUME CommandLineAssumption ==
  /\ Letter \cap (Digit \cup {"nul", "=", "nl"}) = {}
  /\ Digit \cap {"nul", "=", "nl"} = {}
  /\ Size \in Nat \ {0}

Char == Letter \cup Digit \cup {"nul", "=", "nl"}

\* uart_buf_rx as it is loaded
Cleared == [i \in 1 .. Size |-> "nul"]

\* The DMA writes a line into the buffer.
Receive(buf, line) == [i \in 1 .. Size |-> IF i <= Len(line) THEN line[i] ELSE buf[i]]

\* Where strtok puts the zero behind a token, and where the token begins.
TokenEnd(buf, from, delim) ==
  LET ends == {i \in from .. Size : buf[i] \in {delim, "nul"}}
  IN IF ends = {} THEN Size + 1 ELSE CHOOSE i \in ends : \A j \in ends : i <= j

TokenStart(buf, from, delim) ==
  LET starts == {i \in from .. Size : buf[i] # delim}
  IN IF starts = {} THEN Size + 1 ELSE CHOOSE i \in starts : \A j \in starts : i <= j

\* strtok(&buf[from], delim): the token, none (a null pointer) as {}, and the
\* buffer it leaves.
Strtok(buf, from, delim) ==
  LET start == TokenStart(buf, from, delim)
      end   == TokenEnd(buf, start, delim)
  IN IF start > Size \/ buf[start] = "nul"
     THEN [token |-> {}, buf |-> buf]
     ELSE [token |-> {SubSeq(buf, start, end - 1)},
           buf   |-> IF end <= Size THEN [buf EXCEPT ![end] = "nul"] ELSE buf]

\* atoi: the number the digits at the front spell
Atoi(token) ==
  LET rest == SelectInSeq(token, LAMBDA c : c \notin Digit)
  IN IF rest = 0 THEN token ELSE SubSeq(token, 1, rest - 1)

\* Mutant of Parse: the zero that replaced "=" is not stepped over.
ParseFromZero(buf) ==
  LET first  == Strtok(buf, 1, "=")
      second == Strtok(first.buf, Len(CHOOSE t \in first.token : TRUE) + 1, "nl")
  IN IF first.token = {} THEN [name |-> {}, arg |-> {}, buf |-> first.buf]
     ELSE [name |-> first.token,
           arg  |-> {Atoi(t) : t \in second.token},
           buf  |-> second.buf]

\* The handler's two calls.  The second one starts one byte behind a string as
\* long as the first token, counted from the start of the buffer.  Without a
\* name (or an argument) the code passes a null pointer on: {} here.
Parse(buf) ==
  LET first  == Strtok(buf, 1, "=")
      second == Strtok(first.buf, Len(CHOOSE t \in first.token : TRUE) + 2, "nl")
  IN IF first.token = {} THEN [name |-> {}, arg |-> {}, buf |-> first.buf]
     ELSE [name |-> first.token,
           arg  |-> {Atoi(t) : t \in second.token},
           buf  |-> second.buf]

-----------------------------------------------------------------------------
\* A line name=number newline means the same whatever came before it and is
\* still in the buffer; of a line name= newline the name arrives.  (A bare name with
\* no "=" is another line: its newline belongs to the first token.)
LineIsHeard(buf, name, number) ==
  LET line   == name \o <<"=">> \o number \o <<"nl">>
      parsed == Parse(Receive(buf, line))
  IN Len(line) <= Size =>
       /\ parsed.name = {name}
       /\ number # <<>> => parsed.arg = {Atoi(number)}
=============================================================================
