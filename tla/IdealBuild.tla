------------------------------ MODULE IdealBuild ------------------------------
(***************************************************************************)
(* What a build promises, without a word about how it decides what to      *)
(* compile: an object is only ever replaced by the result of the present   *)
(* inputs, and success is reported only when every object is that result.  *)
(***************************************************************************)
CONSTANTS Sources, SrcVersions, HdrVersions, Flags,
          NoOut,           \* there is no object
          Result(_, _, _)  \* what a source, a header and flags compile to

VARIABLES src, hdr, flags,  \* the inputs
          out,              \* [Sources -> the object on disk, or NoOut]
          reported          \* did a build of the present inputs report success?

vars == <<src, hdr, flags, out, reported>>

Present(s) == Result(src[s], hdr, flags)

Init == /\ src \in [Sources -> SrcVersions] /\ hdr \in HdrVersions /\ flags \in Flags
        /\ out = [s \in Sources |-> NoOut]
        /\ reported = FALSE

Edit == /\ src' \in [Sources -> SrcVersions] /\ hdr' \in HdrVersions /\ flags' \in Flags
        /\ reported' = FALSE
        /\ UNCHANGED out

Clean == /\ out' = [s \in Sources |-> NoOut]
         /\ reported' = FALSE
         /\ UNCHANGED <<src, hdr, flags>>

Begin == reported' = FALSE /\ UNCHANGED <<src, hdr, flags, out>>

Compile(s) == /\ out' = [out EXCEPT ![s] = Present(s)]
              /\ UNCHANGED <<src, hdr, flags, reported>>

Report == /\ \A s \in Sources : out[s] = Present(s)
          /\ reported' = TRUE
          /\ UNCHANGED <<src, hdr, flags, out>>

Next == Edit \/ Clean \/ Begin \/ Report \/ \E s \in Sources : Compile(s)

Spec == Init /\ [][Next]_vars

==============================================================================
