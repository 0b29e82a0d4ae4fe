------------------------- MODULE MCRequestLifecycle -------------------------
(* Two plugins, bodies of up to four bytes in chunks of one or two, and a byte   *)
(* counter that overflows at three; Pingora makes at most three attempts.        *)
EXTENDS RequestLifecycle

=============================================================================
