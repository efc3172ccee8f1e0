------------------------------- MODULE Logins -------------------------------
(***************************************************************************)
(* What the modules of a user are about: a login makes an instance of each,*)
(* which is given packets.                                                 *)
(***************************************************************************)
CONSTANTS
  Sessions,   \* the logins, each of which stands for its instances
  Packets
=============================================================================
