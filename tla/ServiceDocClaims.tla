--------------------------- MODULE ServiceDocClaims ---------------------------
(***************************************************************************)
(* What the repository's documents and comments say of the running service *)
(* and that the code does otherwise; each is refuted by a run of its own.  *)
(***************************************************************************)
EXTENDS MCService

Ends(c, pc) == req[c].pc = pc /\ req'[c] = Idle

\* docs/architecture.md:320, "Files are moved (not deleted); undo restores within
\* the session": every file the user had is in the library or in the trash.
FilesAreNeverLost ==
    \A id \in PhotoIDs, n \in 1 .. MaxImports :
        n <= imported[id] => \/ lib[id] = n
                             \/ \E k \in Slots : trash[<<id, k>>] = n

\* store.go:344-346, AutoStartSession is "Used by `/` when no session is active":
\* starting a batch by opening the page throws no decisions away.
AutoStartDropsNoDecision ==
    [][\A c \in Clients :
          (Ends(c, "start") /\ HasSession(mem)) =>
              mem.session.stack = <<>>]_serviceVars
=============================================================================
