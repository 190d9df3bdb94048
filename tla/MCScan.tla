------------------------------- MODULE MCScan -------------------------------
(***************************************************************************)
(* Scan on the programs of CallGadgets.                                    *)
(***************************************************************************)
EXTENDS Scan, CallGadgets

MCPrograms ==
  {<< Caller(c, 2), c >> : c \in {Linear, Root, Square}}
    \cup {<< BothCaller, Both >>, << Caller(Caller(Square, 3), 2), Caller(Square, 3), Square >>}
MCModels == UNION {{p[i] : i \in DOMAIN p} : p \in MCPrograms}

(* A program with one call to a circuit that is verified, and one without calls
   whose only target has two roots.                                             *)
CallPrograms == {<< Caller(Linear, 2), Linear >>}
FreePrograms == {<< Root >>}
FreeModels == {Root}
=============================================================================
