-------------------------- MODULE MCFinalBindings --------------------------
(***************************************************************************)
(* Modules over two names whose functions rebind names in every way Python *)
(* has and whose loops bind names: what the code promises of its summaries *)
(* and does not keep.                                                      *)
(***************************************************************************)
EXTENDS FinalBindings

CONSTANTS f, h

MCNames == {f, h}

\* Rebinding a name by a statement that is not looked at, or before calling; and
\* calling what a name holds that is not the one in the text.
MCBodies ==
  {NoBody} \cup {[NoBody EXCEPT !.writes = {n}, !.seen = FALSE] : n \in MCNames}
    \cup {[NoBody EXCEPT !.writes = {n}, !.first = TRUE, !.calls = m, !.named = m] :
             n \in MCNames, m \in MCNames}
    \cup {[NoBody EXCEPT !.calls = n, !.named = m] : n \in MCNames, m \in MCNames}
MCRebindings == {{}, MCNames}
=============================================================================
