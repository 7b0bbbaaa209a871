------------------------------ MODULE MCHandles ------------------------------
(* The programs for which TLC checks Handles. *)
EXTENDS Handles

Singles == {"Isend", "Wait", "Test", "Cancel", "Request_free"}
Several == {"Isend", "Waitall", "Waitany", "Waitsome", "Testall", "Testany", "Testsome"}
Persistents == {"Isend", "Send_init", "Start", "Startall", "Wait", "Testany", "Request_free"}
Restarted == {"Send_init", "Start", "Wait", "Cancel", "Request_free"}
Communicators == {"Comm_dup", "Comm_rank", "Comm_free"}
Messages == {"Mprobe", "Mrecv", "Imrecv", "Wait"}

Scene(build, lang, calls) == [build |-> build, lang |-> lang, calls |-> calls]

MCScenes ==
  {Scene("pointer", "C", Singles \cup Several), Scene("intFortran", "Fortran", Singles),
   Scene("intFortran", "Fortran", Several), Scene("fortran", "C", {"Isend", "Wait", "Testany"}),
   Scene("int", "C", Persistents), Scene("pointer", "C", Persistents),
   Scene("pointer", "C", Restarted), Scene("intFortran", "C", Restarted),
   Scene("int", "C", Communicators), Scene("fortran", "Fortran", Communicators),
   Scene("int", "C", {"Mprobe", "Mrecv"}), Scene("pointer", "C", Messages)}
MCArray == <<1, 2>>
=============================================================================
