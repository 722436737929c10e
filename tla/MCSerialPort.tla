---------------------------- MODULE MCSerialPort ----------------------------
(* Small instances of SerialPort for TLC. *)
EXTENDS SerialPort, TLC

\* The threads are interchangeable: sound for the safety runs.
ThreadSymmetry == Permutations(Threads)

=============================================================================
