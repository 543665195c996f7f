------------------------------ MODULE ConsoleIO ------------------------------
(***************************************************************************)
(* The console of the FileShare programs: the thread of the program runs   *)
(* maintenance, one command and the receive calls in turn; a reader thread *)
(* puts the lines the user types into a queue between them.                *)
(***************************************************************************)
EXTENDS Naturals, Sequences

CONSTANT MaxLines   \* bound: lines the user types

ASSUME ConsoleAssumption == MaxLines \in Nat

VARIABLES
  run,       \* where the thread of the program is
  reader,    \* where the reader thread is
  m_reading,
  input,     \* lines typed and not yet read
  typed,     \* how many have been typed
  safeQueue  \* the queue between the threads

console == <<run, reader, m_reading, input, typed, safeQueue>>

Lines == {"command", "exit"}

ConsoleTypeOK ==
  /\ run \in {"maintain", "command", "receive", "close", "join", "done"}
  /\ reader \in {"test", "getline", "done"}
  /\ m_reading \in BOOLEAN
  /\ input \in Seq(Lines) /\ safeQueue \in Seq(Lines)
  /\ typed \in 0 .. MaxLines

(* Begin starts the reader.                                                 *)
ConsoleInit ==
  /\ run = "maintain"
  /\ reader = "test" /\ m_reading = TRUE
  /\ input = <<>> /\ safeQueue = <<>> /\ typed = 0

Type(line) ==
  /\ typed < MaxLines
  /\ input' = Append(input, line)
  /\ typed' = typed + 1
  /\ UNCHANGED <<run, reader, m_reading, safeQueue>>

(* ReadInput: the test of the loop, then the line, which is pushed. The     *)
(* reader that waits for a line does not see m_reading change.              *)
TestReading ==
  /\ reader = "test"
  /\ reader' = IF m_reading THEN "getline" ELSE "done"
  /\ UNCHANGED <<run, m_reading, input, typed, safeQueue>>

ReadLine ==
  /\ reader = "getline" /\ input # <<>>
  /\ safeQueue' = Append(safeQueue, Head(input))
  /\ input' = Tail(input)
  /\ reader' = "test"
  /\ UNCHANGED <<run, m_reading, typed>>

ReadInput == TestReading \/ ReadLine

(* One line is taken, if there is one: exit leaves the loop before the      *)
(* receive calls, another line runs a command.                              *)
NextLine ==
  /\ run = "command"
  /\ safeQueue' = IF safeQueue = <<>> THEN <<>> ELSE Tail(safeQueue)
  /\ run' = IF safeQueue # <<>> /\ Head(safeQueue) = "exit" THEN "close"
                                                            ELSE "receive"
  /\ UNCHANGED <<reader, m_reading, input, typed>>

(* Mutant of End: the reader is not told.                                   *)
EndSilent ==
  /\ run = "close"
  /\ run' = "join"
  /\ UNCHANGED <<reader, m_reading, input, typed, safeQueue>>

(* End: the reader is told, the user asked for one more line, the thread    *)
(* joined.                                                                  *)
End ==
  /\ run = "close"
  /\ m_reading' = FALSE
  /\ run' = "join"
  /\ UNCHANGED <<reader, input, typed, safeQueue>>

Join ==
  /\ run = "join" /\ reader = "done"
  /\ run' = "done"
  /\ UNCHANGED <<reader, m_reading, input, typed, safeQueue>>

ConsoleStep == NextLine \/ End \/ Join

(* "Press enter to terminate" (ThreadedReader.cpp:49): once the thread of   *)
(* the program waits to join, one line that is typed ends the program.      *)
EnterTerminates == run = "join" /\ input # <<>> ~> run = "done"
=============================================================================
