--------------------------- MODULE MCUdsOwnership ---------------------------
(* Two processes, which crash at any step, and three inode numbers, so that a  *)
(* number is used again; someone else may remove and replace the socket file.  *)
EXTENDS UdsOwnership

=============================================================================
