-------------------------- MODULE MCSeccompPolicy --------------------------
(* The real tables; descriptors of three bits, longs of four.               *)
EXTENDS SeccompPolicy

\* Calls younger than the first libseccomp with user notification.
MCNewer == {"futex_waitv", "epoll_pwait2", "close_range"}
=============================================================================
