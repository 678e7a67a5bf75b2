------------------------------ MODULE MCUploads ------------------------------
(* Instances of Uploads, and so of Accounts, for TLC.                        *)
EXTENDS Uploads, TLC

CONSTANTS lower, upper, other

\* Two spellings of one address, and another address.
Spellings == lower :> "first" @@ upper :> "first" @@ other :> "second"

UploadSymmetry ==
    Permutations(Browsers) \cup Permutations(Slugs) \cup Permutations(Uploads)

=============================================================================
