----------------------------- MODULE ConfirmInput -----------------------------
(****************************************************************************)
(* Confirmation lines, read without blocking cancellation:                   *)
(*                                                                           *)
(*   confirminput.Scan   one read, in a goroutine that owns the scanner      *)
(*   bufio.Scanner       what it returns after its input ended or failed     *)
(*                                                                           *)
(* The prompts of one command run share one Reader.  A prompt calls Ask and  *)
(* goes on when Read(l) or ReadFailed tells it what Scan returned.           *)
(****************************************************************************)
EXTENDS Naturals

CONSTANTS Lines,     \* what the operator may type at a prompt
          MaxTyped   \* bound on the lines typed in a run

End == "end of input"
Broken == "read error"
NoAnswer == "no answer"
Answers == Lines \cup {End, Broken}

ASSUME InputAssumption ==
  /\ MaxTyped \in Nat
  /\ {End, Broken, NoAnswer} \cap Lines = {}

VARIABLES
  cancelled,  \* the command's context is done
  reader,     \* "idle"; "reading": a goroutine owns the scanner; "refusing":
              \* cancelErr is set, and no read is started any more
  answer,     \* what that goroutine left in its channel
  source,     \* "open"; once ended or broken the scanner says so for ever
  typed       \* lines typed so far

input == << cancelled, reader, answer, source, typed >>

InputInit ==
  /\ cancelled = FALSE /\ reader = "idle" /\ answer = NoAnswer
  /\ source = "open" /\ typed = 0

-----------------------------------------------------------------------------
(* The operator and the signals.  A goroutine a cancelled prompt abandoned   *)
(* still takes the next line: its channel is buffered.                       *)

Interrupt ==
  /\ ~cancelled
  /\ cancelled' = TRUE
  /\ UNCHANGED << reader, answer, source, typed >>

Waiting == reader # "idle" /\ answer = NoAnswer /\ source = "open"

Type(l) ==
  /\ Waiting
  /\ typed < MaxTyped
  /\ answer' = l
  /\ typed' = typed + 1
  /\ UNCHANGED << cancelled, reader, source >>

CloseInput(how) ==
  /\ Waiting
  /\ answer' = how
  /\ source' = IF how = End THEN "ended" ELSE "broken"
  /\ UNCHANGED << cancelled, reader, typed >>

-----------------------------------------------------------------------------
(* The first half of Scan: start the read, or refuse to.                     *)
Ask ==
  /\ reader = "idle"
  /\ IF cancelled
     THEN reader' = "refusing" /\ UNCHANGED answer
     ELSE /\ reader' = "reading"
          /\ answer' = CASE source = "ended" -> End
                         [] source = "broken" -> Broken
                         [] OTHER -> NoAnswer
  /\ UNCHANGED << cancelled, source, typed >>

(* Mutants: a ready line wins over cancellation; Scan waits for a line.      *)
UsableLate(l) == reader = "reading" /\ answer = l

ReadCancelledLate ==
  /\ reader = "refusing" \/ (reader = "reading" /\ cancelled /\ answer # NoAnswer)
  /\ reader' = "refusing"
  /\ UNCHANGED << cancelled, answer, source, typed >>

(* Scan returns what was read.  Cancellation wins over a ready line.         *)
Usable(l) == reader = "reading" /\ answer = l /\ ~cancelled

Read(l) ==
  /\ Usable(l)
  /\ reader' = "idle" /\ answer' = NoAnswer
  /\ UNCHANGED << cancelled, source, typed >>

(* Scan returns the cancellation, and so will every later call.              *)
ReadCancelled ==
  /\ reader = "refusing" \/ (reader = "reading" /\ cancelled)
  /\ reader' = "refusing"
  /\ UNCHANGED << cancelled, answer, source, typed >>
=============================================================================
