---------------------------- MODULE Credentials ----------------------------
(***************************************************************************)
(* What a reader of client_id and client_secret may rely on: the two files *)
(* are written one after the other, each may be cut short, and the id is   *)
(* never older than the secret beside it.  The Device Discovery Agent      *)
(* implements it (Onboarding) and the Node Agent reads the files           *)
(* (NodeTokens).                                                           *)
(***************************************************************************)
EXTENDS CredentialFiles

VARIABLES accepted,  \* the generation the identity provider accepts, 0 for none
          id, secret \* the contents of the files

CredentialsInit == accepted = 0 /\ id = Absent /\ secret = Absent

Renew == /\ accepted < MaxGeneration /\ accepted' = accepted + 1
         /\ UNCHANGED <<id, secret>>

(* An id that was current when its writer was told it, and none older than *)
(* the id in the file.                                                     *)
WriteID == /\ id' \in 1..accepted \cup {Torn}
           /\ id \in 1..accepted => id <= id'
           /\ secret \in 1..accepted => secret <= id'
           /\ UNCHANGED <<accepted, secret>>

(* The secret that belongs to the id in the file.                          *)
WriteSecret == /\ id \in 1..accepted /\ secret' \in {id, Torn}
               /\ UNCHANGED <<accepted, id>>

CredentialsNext == Renew \/ WriteID \/ WriteSecret
CredentialsSpec == CredentialsInit /\ [][CredentialsNext]_<<accepted, id, secret>>
=============================================================================
