----------------------------- MODULE MCProcesses -----------------------------
(***************************************************************************)
(* Copy: two files, the copies of one of them given as an argument too,    *)
(* one file that is missing, one that is empty, one whose copy cannot be   *)
(* created. Broadcast: a nickname that begins another.                     *)
(***************************************************************************)
EXTENDS Processes

MCNames == {"a", "a.copy", "a.copy.copy", "b", "b.copy", "x", "x.copy", "u", "u.copy"}
MCCopyOf == [f \in {"a", "a.copy", "b", "x", "u"} |->
  CASE f = "a" -> "a.copy" [] f = "a.copy" -> "a.copy.copy" [] f = "b" -> "b.copy"
    [] f = "x" -> "x.copy" [] f = "u" -> "u.copy"]
MCContents == [f \in MCNames |->
  CASE f = "a" -> <<"a1", "a2", "a3">> [] f = "a.copy" -> <<"old">>
    [] f = "u" -> <<"u1">> [] OTHER -> <<>>]
MCArgLists == {<<"a", "b", "a">>, <<"a", "x", "u">>, <<"a", "a.copy">>}

MCTasks == {"t1", "t2", "t3"}
MCPeers == {"bo", "bob"}
MCBegins == {<<"bo", "bo">>, <<"bo", "bob">>, <<"bob", "bob">>}
MCMaxLines == [bo |-> 0, bob |-> 2]
MCKinds == {"chat", "dns", "udp", "not UDP"}

(* The copy has several initial states; one will do for the others. *)
MCInit ==
  AllInit /\ (program # "copy" => ~named /\ args = <<"a", "x", "u">> /\ chunk_size = 0)

(* The processes of each program; they all run on, users and packets need  *)
(* not come. One WF for one process of each: only one program runs.        *)
First == Copying(Parent) \/ Telling(Cuckoos!CuckooStep) \/ Chatting(Broadcast!Run("bo"))
Second == Copying(Child) \/ Telling(Cuckoos!TaskStep("t1")) \/ Chatting(Broadcast!Run("bob"))
Third == Copying(OpenFifo) \/ Telling(Cuckoos!TaskStep("t2")) \/ Sniffing(Sniff!Run)
Fourth == Telling(Cuckoos!TaskStep("t3"))
AllFair == WF_all(First) /\ WF_all(Second) /\ WF_all(Third) /\ WF_all(Fourth)
AllFairSpec == MCInit /\ [][AllNext]_all /\ AllFair

-----------------------------------------------------------------------------
(* The copy comes to its end, a task gets its number, a stop is noticed.   *)
ProcessesEnd ==
  /\ program = "copy" => Completes
  /\ Cuckoos!TaskEnds /\ Broadcast!StopEnds /\ Sniff!StopNoticed
===============================================================================
