---------------------------- MODULE ConfigClaims ----------------------------
(***************************************************************************)
(* A statement of the repository's documents about the registry, as a      *)
(* property of ConfigPlane that TLC is expected to refute.                 *)
(***************************************************************************)
EXTENDS ConfigPlane

\* STORY-08-03: replacing one direction never disturbs the other direction's
\* snapshot.  The document is read, merged and written back whole.
CarriesForward ==
    [][\A a \in Admin, d \in Direction :
         call[a].pc = "write" /\ call'[a].pc = "audit" /\ Asks(a, "replace")
         /\ d # call[a].ask.direction /\ registry # Absent
           => registry'.directions[d] = registry.directions[d]]_vars
=============================================================================
