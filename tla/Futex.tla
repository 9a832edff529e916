------------------------------- MODULE Futex -------------------------------
(***************************************************************************)
(* What the kernel does for futex_wait of src/util/futex.h, for the fence   *)
(* and the mutex, whose words are 2 while somebody may be waiting.          *)
(***************************************************************************)
EXTENDS Integers

CONSTANT Threads

\* futex_wait(&word, 2, ...) puts the thread to sleep if the word still is 2,
\* otherwise the call returns at once.
FutexSleepsBlind(word) == TRUE
FutexSleeps(word) == word = 2
=============================================================================
