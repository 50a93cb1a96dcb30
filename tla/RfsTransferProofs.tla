------------------------- MODULE RfsTransferProofs -------------------------
(***************************************************************************)
(* Theorems about RfsTransfer, for any commands, sizes and buffers, and    *)
(* however the streams are cut into pieces.                                *)
(***************************************************************************)
EXTENDS RfsTransfer, TLAPS

Downloading == Op \in {"GET", "GETVERSION"}

\* Where a side is tells which operation it is about.
ControlInv ==
  /\ cpc \in {"open_source", "send_size", "send_data"} => Uploading
  /\ cpc \in {"recv_size", "open_local", "recv_data", "fclose_local", "remove_local"} =>
       Downloading
  /\ spc \in {"string", "size", "dirs", "exists", "create", "data", "saved", "remove"} =>
       Uploading
  /\ spc = "name" => ~Uploading /\ Op # "STOP"
  /\ spc \in {"lookup", "send_size", "send_data"} => Downloading
  /\ spc = "delete" => Op = "RM"
  /\ spc = "list" => Op = "LS"
  /\ spc = "reply" => Op \in {"RM", "LS"}
  /\ cpc = "connect" => spc = "none"
  /\ cpc = "send_name" => Op # "STOP"

\* The thread of a WRITE reads each field where the client put it, and gets no further
\* than the name if there is no local file.
LayoutInv ==
  /\ source # Absent => source = [of |-> "mine", len |-> source.len]
  /\ Uploading /\ source = Absent =>
       upSent <= End("string") /\ cpc \notin {"send_size", "send_data"}
  /\ spc \in {"none", "pending", "op"} => mark = 0
  /\ spc = "string" => mark = End("op")
  /\ spc = "size" => mark = End("string")
  /\ spc \in {"dirs", "exists", "create", "data", "saved"} =>
       mark = Header /\ source # Absent /\ size = source.len
  /\ spc \in {"dirs", "exists", "create"} => upGot = mark
  /\ Uploading => name # "garbled"

\* The thread has not come to its answer.
Unanswered == spc \notin ReplyPcs \cup {"close", "done", "killed"}

\* What the thread answers to a download.
AnswerInv ==
  /\ Unanswered => downSent = 0 /\ opened = Absent
  /\ opened # Absent => Downloading /\ (name = "sent" => opened = Wanted)
  /\ Downloading /\ (spc \in {"send_size", "send_data"} \/ downSent > 0) =>
       IF opened = Absent THEN size = -1 ELSE size = opened.len

\* The ends of the connection, and the streams, as long as every call does its work:
\* the thread has read the whole request, and sent the whole reply when it is done.
EndsInv ==
  /\ cOpen <=> cpc \notin ClientEnd \cup {"connect"}
  /\ sOpen <=> spc \notin ServerEnd
  /\ spc = "killed" => trouble
  /\ ~Uploading => upSent <= End("name")
  /\ ~trouble /\ spc = "name" => mark = End("op")
  /\ ~trouble /\ spc \in {"lookup", "send_size", "send_data"} => upGot = End("name")
  /\ ~trouble /\ opened # Absent =>
       /\ upGot = End("name")
       /\ spc \in {"close", "done"} /\ cOpen => downSent = Pieces["size"] + size

\* No call of the client's that nobody looks at has failed.
Heeded == "fclose_local" \notin ignored /\ "remove_local" \notin ignored

\* The local file, at each point of a download.
LocalInv ==
  /\ cpc \notin {"recv_data", "fclose_local", "remove_local", "close", "done", "killed"} =>
       local = source
  /\ cpc \notin {"close", "done", "killed"} => outcome = "none"
  /\ cpc \in {"open_local", "recv_data", "fclose_local", "remove_local"} =>
       opened # Absent /\ downGot > 0
  /\ cpc = "recv_data" =>
       downGot >= Pieces["size"] /\ local = Downloaded(downGot - Pieces["size"])
  /\ cpc = "open_local" => downGot = Pieces["size"]
  /\ cpc = "fclose_local" => local = opened
  /\ cpc = "remove_local" => trouble
  /\ cpc \in {"close", "done"} /\ Heeded /\ outcome # "received" =>
       local = source \/ (local = Absent /\ opened # Absent /\ trouble)
  /\ outcome = "received" =>
       /\ cpc \in {"close", "done", "killed"} /\ opened # Absent
       /\ "fclose_local" \notin ignored => local = opened

\* The versions after backup_file.
KeptOnes == IF "rename" \in ignored THEN kept0 ELSE PutAside

\* Storage, at each point of an upload.
UploadInv ==
  Uploading =>
    /\ spc \in {"none", "pending", "op", "string", "size", "dirs", "exists"} =>
         cur = cur0 /\ kept = kept0 /\ "rename" \notin ignored
    /\ spc \in {"create", "data", "saved", "remove"} => kept = KeptOnes /\ source # Absent
    /\ spc = "create" => cur = IF "rename" \in ignored THEN cur0 ELSE Absent
    /\ spc = "data" => cur = Upload(upGot - mark)
    /\ spc = "saved" => cur = source
    /\ spc = "remove" => verdict = "failed"
    /\ spc \in {"close", "done"} =>
         \/ verdict = "dropped" /\ cur = cur0 /\ kept = kept0
         \/ verdict = "refused" /\ Aside(Upload(0))
         \/ /\ verdict = "saved" /\ kept = KeptOnes
            /\ "fclose" \notin ignored => cur = source
         \/ /\ verdict = "failed" /\ kept = KeptOnes
            /\ "remove" \notin ignored => cur = Absent
    /\ source = Absent => cur = cur0 /\ kept = kept0

TransferInv ==
  /\ TypeOK /\ ControlInv /\ LayoutInv /\ AnswerInv
  /\ EndsInv /\ LocalInv /\ UploadInv

ClientMoves == ClientStep \/ ClientFails \/ ClientKilled
ServerMoves == ServerStep \/ ServerFails \/ ServerKilled

-----------------------------------------------------------------------------

\* The fields lie one after the other.
LEMMA Layout ==
  /\ Start("op") = 0 /\ Start("string") = End("op") /\ Start("name") = End("op")
  /\ Start("size") = End("string") /\ Header = End("size")
  /\ End("op") = Pieces["op"] /\ End("name") = End("op") + Pieces["name"]
  /\ End("string") = End("op") + Pieces["string"]
  /\ Header = End("string") + Pieces["size"]
  /\ Pieces["op"] \in Nat \ {0} /\ Pieces["name"] \in Nat \ {0}
  /\ Pieces["string"] \in Nat \ {0} /\ Pieces["size"] \in Nat \ {0}
  BY TransferAssumption DEF Start, End, Header, Fields

\* The operation is one of the six.
LEMMA Operations == TypeOK => Op \in Ops
  BY TransferAssumption DEF TypeOK, Op

\* What a download asks for is a file or nothing.
LEMMA WantedFile == TypeOK => Wanted \in Files \cup {Absent}
<1> SUFFICES ASSUME TypeOK PROVE Wanted \in Files \cup {Absent}
  OBVIOUS
<1>1. \A k \in 1 .. Len(kept) : kept[k] \in Files
  BY DEF TypeOK, FilesOK
<1> QED
  BY <1>1 DEF TypeOK, FilesOK, Wanted

\* A file that is asked for, cut to any length, is a file.
LEMMA DownloadedFile ==
  ASSUME TypeOK, opened # Absent, NEW n \in Nat
  PROVE  Downloaded(n) \in Files /\ (n = opened.len => Downloaded(n) = opened)
  BY DEF TypeOK, FilesOK, Downloaded, Files

\* So is what arrives of an upload.
LEMMA UploadFile ==
  ASSUME NEW n \in Nat
  PROVE  Upload(n) \in Files
  BY DEF Upload, Files, Origins

\* So is what there is under any name.
LEMMA FoundFile == TypeOK => Found \subseteq Files \cup {Absent}
  BY WantedFile, TransferAssumption DEF Found, Files, Origins

\* Before the thread answers, the client is not past waiting for the file size.
LEMMA NotReceiving ==
  TransferInv /\ Unanswered =>
    cpc \notin {"open_local", "recv_data", "fclose_local", "remove_local"}
  BY DEF TransferInv, AnswerInv, LocalInv

\* In the beginning nothing has been sent and nothing is changed.
LEMMA InitTransferInv == Init => TransferInv
<1> SUFFICES ASSUME Init PROVE TransferInv
  OBVIOUS
<1>1. source \in Files \cup {Absent} /\ cur0 \in Files \cup {Absent}
  BY TransferAssumption DEF Init, Files, Origins
<1>2. kept0 \in Seq(Files)
  <2>1. \A z \in Sizes : [of |-> "old", len |-> z] \in Files
    BY TransferAssumption DEF Files, Origins
  <2>2. kept0 = <<>> \/ \E f \in Files : kept0 = <<f>>
    BY <2>1 DEF Init
  <2>3. <<>> \in Seq(Files) /\ \A f \in Files : <<f>> \in Seq(Files)
    OBVIOUS
  <2> QED
    BY <2>2, <2>3, Zenon
<1>3. TypeOK
  <2>1. FilesOK
    BY <1>1, <1>2 DEF Init, FilesOK
  <2>2. PcsOK
    BY DEF Init, PcsOK, ClientPcs, ServerPcs, ServerEnd
  <2>3. StreamsOK
    BY DEF Init, StreamsOK
  <2>4. FlagsOK
    <3>1. {} \subseteq Unheeded
      OBVIOUS
    <3> QED
      BY Zenon, <3>1 DEF Init, FlagsOK
  <2> QED
    BY <2>1, <2>2, <2>3, <2>4 DEF Init, TypeOK
<1>4. source # Absent => source = [of |-> "mine", len |-> source.len]
  BY DEF Init
<1>5. ControlInv /\ LayoutInv
  BY <1>4, Layout DEF Init, ControlInv, LayoutInv
<1>6. AnswerInv /\ LocalInv /\ UploadInv
  BY DEF Init, AnswerInv, LocalInv, UploadInv
<1>7. EndsInv
  BY Layout DEF Init, EndsInv, ClientEnd, ServerEnd
<1> QED
  BY <1>3, <1>5, <1>6, <1>7 DEF TransferInv

\* What the client's calls, and those of the server thread, leave alone.
LEMMA ClientFrame ==
  ASSUME ClientMoves
  PROVE  /\ UNCHANGED <<before, verdict, name, size, opened, mark, store, upGot, downSent>>
         /\ UNCHANGED <<spc, sOpen>> \/ Connect
         /\ trouble' = trouble \/ trouble' = TRUE
         /\ \/ ignored' = ignored
            \/ ignored' = ignored \cup {"fclose_local"} /\ CloseLocalFails
            \/ ignored' = ignored \cup {"remove_local"} /\ RemoveLocalFails
<1> USE DEF serverVars, store, up, down, failVars, Fail, FailAt
<1>1. CASE Connect \/ Send \/ SendFails \/ OpenSource
  BY <1>1 DEF Connect, Send, SendFails, OpenSource
<1>2. CASE RecvFileSize \/ OpenLocal \/ RecvLocal \/ CloseLocal \/ RemoveLocal
  BY <1>2 DEF RecvFileSize, OpenLocal, RecvLocal, CloseLocal, RemoveLocal
<1>3. CASE RecvResponse \/ RecvListing \/ RecvEnds \/ CloseClient
  BY <1>3 DEF RecvResponse, RecvListing, RecvEnds, CloseClient, clientVars
<1>4. CASE ConnectFails \/ SourceEnds \/ OpenLocalFails \/ WriteLocalFails
  BY <1>4 DEF ConnectFails, SourceEnds, OpenLocalFails, WriteLocalFails
<1>5. CASE CloseLocalFails \/ RemoveLocalFails \/ ClientKilled
  BY <1>5 DEF CloseLocalFails, RemoveLocalFails, ClientKilled
<1> QED
  BY <1>1, <1>2, <1>3, <1>4, <1>5 DEF ClientMoves, ClientStep, ClientFails

LEMMA ServerFrame ==
  ASSUME ServerMoves
  PROVE  /\ UNCHANGED <<before, clientVars, upSent, downGot>>
         /\ trouble' = trouble \/ trouble' = TRUE
         /\ \/ ignored' = ignored
            \/ ignored' = ignored \cup {"rename"} /\ BackupFails
            \/ ignored' = ignored \cup {"fclose"} /\ SavedInPart
            \/ ignored' = ignored \cup {"remove"} /\ RemovePartialFails
         /\ UNCHANGED opened \/ Lookup
         /\ UNCHANGED size \/ spc \in {"string", "name", "size", "lookup", "delete", "list"}
         /\ UNCHANGED downSent \/ SendReply
<1> USE DEF store, up, down, failVars, Fail, FailAt
<1>1. CASE AcceptClient \/ ReceiveMore \/ ReceiveOperation \/ ReceiveOperationCut
  BY <1>1 DEF AcceptClient, ReceiveMore, ReceiveOperation, ReceiveOperationCut
<1>2. CASE ReceiveName \/ ReceiveNameCut \/ ReceiveSize \/ ReceiveFails
  BY <1>2 DEF ReceiveName, ReceiveNameCut, ReceiveSize, ReceiveFails, Receive, NameField
<1>3. CASE MakeDirectories \/ Backup \/ BackupFails \/ Create \/ CreateFails
  BY <1>3 DEF MakeDirectories, Backup, BackupFails, Create, CreateFails
<1>4. CASE ReceiveData \/ Saved \/ SavedInPart \/ RemovePartial \/ RemovePartialFails
  BY <1>4 DEF ReceiveData, Saved, SavedInPart, RemovePartial, RemovePartialFails
<1>5. CASE Lookup \/ LookupFails \/ Delete \/ DeleteInPart \/ List \/ ListInPart
  BY <1>5 DEF Lookup, LookupFails, Delete, DeleteInPart, List, ListInPart
<1>6. CASE SendReply \/ SendReplyFails \/ ReadEnds \/ CloseServer \/ ServerKilled
  BY <1>6 DEF SendReply, SendReplyFails, ReadEnds, CloseServer, ServerKilled
<1> QED
  BY <1>1, <1>2, <1>3, <1>4, <1>5, <1>6 DEF ServerMoves, ServerStep, ServerFails

\* A step is one of the client, of the server thread, or none.
LEMMA Steps == [Next]_vars => ClientMoves \/ ServerMoves \/ UNCHANGED vars
  BY DEF Next, ClientMoves, ServerMoves

\* Every step leaves files files.
LEMMA FilesStep == TransferInv /\ [Next]_vars => FilesOK'
<1> SUFFICES ASSUME TransferInv, [Next]_vars PROVE FilesOK'
  OBVIOUS
<1> USE DEF TransferInv, TypeOK, FilesOK, before, clientVars, store
<1>1. ASSUME ClientMoves PROVE FilesOK'
  <2>1. CASE local' = local \/ local' = Absent
    BY <1>1, <2>1, ClientFrame
  <2>2. CASE OpenLocal
    <3>1. Downloaded(0) \in Files
      BY <2>2, DownloadedFile DEF OpenLocal, LocalInv
    <3> QED
      BY <1>1, <2>2, <3>1, ClientFrame DEF OpenLocal
  <2>3. CASE RecvLocal
    <3>1. PICK n \in downGot + 1 .. downSent : local' = Downloaded(n - Pieces["size"])
      BY <2>3 DEF RecvLocal
    <3>2. opened # Absent /\ downGot >= Pieces["size"]
      BY <2>3 DEF RecvLocal, LocalInv
    <3>3. downGot \in Nat /\ downSent \in Nat
      BY DEF StreamsOK
    <3>4. n - Pieces["size"] \in Nat
      BY <3>1, <3>2, <3>3, Layout
    <3> QED
      BY <1>1, <3>1, <3>2, <3>4, DownloadedFile, ClientFrame
  <2>4. CASE CloseLocalFails
    <3>1. PICK n \in 0 .. size - 1 : local' = Downloaded(n)
      BY <2>4 DEF CloseLocalFails
    <3>2. opened # Absent /\ n \in Nat
      BY <2>4, <3>1 DEF CloseLocalFails, LocalInv, StreamsOK
    <3> QED
      BY <1>1, <3>1, <3>2, DownloadedFile, ClientFrame
  <2> QED
    BY <1>1, <2>1, <2>2, <2>3, <2>4
    DEF ClientMoves, ClientStep, ClientFails, Connect, Send, SendFails, OpenSource,
        RecvFileSize, CloseLocal, RemoveLocal, RecvResponse, RecvListing, RecvEnds,
        CloseClient, ConnectFails, SourceEnds, OpenLocalFails, WriteLocalFails,
        RemoveLocalFails, ClientKilled
<1>2. ASSUME ServerMoves PROVE FilesOK'
  <2>1. CASE UNCHANGED <<cur, kept, opened>>
    BY <1>2, <2>1, ServerFrame
  <2>2. CASE Backup \/ RemovePartial \/ Delete \/ DeleteInPart
    <3>1. cur' \in Files \cup {Absent} /\ UNCHANGED <<source, cur0, kept0, local, opened>>
      BY <1>2, <2>2, ServerFrame DEF Backup, RemovePartial, Delete, DeleteInPart
    <3>2. kept' \in {<<>>, kept} \/ (cur \in Files /\ kept' = Append(kept, cur))
      BY <2>2 DEF Backup, RemovePartial, Delete, DeleteInPart
    <3>3. kept' \in Seq(Files)
      <4>1. kept \in Seq(Files) /\ <<>> \in Seq(Files)
        OBVIOUS
      <4>2. cur \in Files => Append(kept, cur) \in Seq(Files)
        BY <4>1
      <4> QED
        BY <3>2, <4>1, <4>2, Zenon
    <3> QED
      BY <3>1, <3>3
  <2>3. CASE Create \/ CreateFails
    BY <1>2, <2>3, UploadFile, ServerFrame DEF Create, CreateFails
  <2>4. CASE ReceiveData
    <3>1. PICK n \in upGot + 1 .. upSent : cur' = Upload(n - mark)
      BY <2>4 DEF ReceiveData
    <3>2. n - mark \in Nat
      BY <3>1 DEF StreamsOK
    <3> QED
      BY <1>2, <2>4, <3>1, <3>2, UploadFile, ServerFrame DEF ReceiveData
  <2>5. CASE SavedInPart
    <3>1. PICK n \in 0 .. size - 1 : cur' = Upload(n)
      BY <2>5 DEF SavedInPart
    <3>2. n \in Nat
      BY <3>1 DEF StreamsOK
    <3> QED
      BY <1>2, <2>5, <3>1, <3>2, UploadFile, ServerFrame DEF SavedInPart
  <2>6. CASE Lookup
    BY <1>2, <2>6, FoundFile, ServerFrame DEF Lookup
  <2> QED
    BY <1>2, <2>1, <2>2, <2>3, <2>4, <2>5, <2>6
    DEF ServerMoves, ServerStep, ServerFails, AcceptClient, ReceiveMore, ReceiveOperation,
        ReceiveOperationCut, ReceiveName, ReceiveNameCut, ReceiveSize, ReceiveFails,
        MakeDirectories, BackupFails, Saved, RemovePartialFails, LookupFails, List,
        ListInPart, SendReply, SendReplyFails, ReadEnds, CloseServer, ServerKilled
<1> QED
  BY <1>1, <1>2, Steps DEF vars, serverVars

\* Every step leads to a place in the code.
LEMMA PcsStep == TransferInv /\ [Next]_vars => PcsOK'
<1> SUFFICES ASSUME TransferInv, [Next]_vars PROVE PcsOK'
  OBVIOUS
<1> USE DEF TransferInv, TypeOK, PcsOK, ClientPcs, ServerPcs, SendPcs, RecvPcs,
            ClientEnd, FieldPcs, ReplyPcs, ServerEnd, before, clientVars, serverVars,
            store
<1>1. ASSUME ClientMoves PROVE PcsOK'
  <2>1. CASE Connect \/ Send \/ SendFails \/ OpenSource
    BY <2>1 DEF Connect, Send, SendFails, OpenSource, SendTo, AfterSend
  <2>2. CASE RecvFileSize \/ OpenLocal \/ RecvLocal \/ CloseLocal \/ RemoveLocal
    BY <2>2 DEF RecvFileSize, OpenLocal, RecvLocal, CloseLocal, RemoveLocal
  <2>3. CASE RecvResponse \/ RecvListing \/ RecvEnds \/ CloseClient
    BY <2>3 DEF RecvResponse, RecvListing, RecvEnds, CloseClient, AfterEnd
  <2>4. CASE ConnectFails \/ SourceEnds \/ OpenLocalFails \/ WriteLocalFails
    BY <2>4 DEF ConnectFails, SourceEnds, OpenLocalFails, WriteLocalFails
  <2>5. CASE CloseLocalFails \/ RemoveLocalFails \/ ClientKilled
    BY <2>5 DEF CloseLocalFails, RemoveLocalFails, ClientKilled
  <2> QED
    BY <1>1, <2>1, <2>2, <2>3, <2>4, <2>5 DEF ClientMoves, ClientStep, ClientFails
<1>2. ASSUME ServerMoves PROVE PcsOK'
  <2>1. CASE AcceptClient \/ ReceiveMore \/ ReceiveOperation \/ ReceiveOperationCut
    BY <2>1 DEF AcceptClient, ReceiveMore, ReceiveOperation, ReceiveOperationCut, NameField
  <2>2. CASE ReceiveName \/ ReceiveNameCut
    BY <2>2 DEF ReceiveName, ReceiveNameCut, Validate, AfterName
  <2>3. CASE ReceiveSize \/ ReceiveFails \/ MakeDirectories \/ Backup \/ BackupFails
    BY <2>3
    DEF ReceiveSize, ReceiveFails, MakeDirectories, Backup, BackupFails, AfterFailure
  <2>4. CASE Create \/ CreateFails \/ ReceiveData \/ Saved \/ SavedInPart
    BY <2>4 DEF Create, CreateFails, ReceiveData, Saved, SavedInPart
  <2>5. CASE RemovePartial \/ RemovePartialFails \/ Lookup \/ LookupFails
    BY <2>5 DEF RemovePartial, RemovePartialFails, Lookup, LookupFails
  <2>6. CASE Delete \/ DeleteInPart \/ List \/ ListInPart
    BY <2>6 DEF Delete, DeleteInPart, List, ListInPart
  <2>7. CASE SendReply \/ SendReplyFails \/ ReadEnds \/ CloseServer \/ ServerKilled
    BY <2>7 DEF SendReply, SendReplyFails, ReadEnds, CloseServer, ServerKilled
  <2> QED
    BY <1>2, <2>1, <2>2, <2>3, <2>4, <2>5, <2>6, <2>7
    DEF ServerMoves, ServerStep, ServerFails
<1> QED
  BY <1>1, <1>2, Steps DEF vars, serverVars

\* Every step keeps the positions in order.
LEMMA StreamsStep == TransferInv /\ [Next]_vars => StreamsOK'
<1> SUFFICES ASSUME TransferInv, [Next]_vars PROVE StreamsOK'
  OBVIOUS
<1> USE DEF TransferInv, TypeOK, StreamsOK, before, clientVars, serverVars, store, up,
            down
<1>1. ASSUME ClientMoves PROVE StreamsOK'
  <2>1. CASE Connect \/ SendFails \/ OpenSource \/ RecvFileSize
    BY <2>1 DEF Connect, SendFails, OpenSource, RecvFileSize
  <2>2. CASE Send
    <3>1. PICK n \in upSent + 1 .. SendTo : upSent' = n
      BY <2>2 DEF Send
    <3>2. upSent' \in Nat /\ upSent' > upSent
      BY <3>1
    <3>3. cpc' # "recv_data"
      BY <2>2 DEF Send, AfterSend, SendPcs
    <3> QED
      BY <2>2, <3>2, <3>3 DEF Send
  <2>3. CASE OpenLocal
    <3>1. opened # Absent /\ downGot = Pieces["size"] /\ downGot > 0 /\ Downloading
      BY <2>3 DEF OpenLocal, LocalInv, ControlInv
    <3>2. size = opened.len /\ opened \in Files
      BY <3>1 DEF AnswerInv, FilesOK
    <3> QED
      BY <2>3, <3>1, <3>2, Layout DEF OpenLocal, Files
  <2>4. CASE RecvLocal
    <3>1. PICK n \in downGot + 1 .. downSent :
            /\ n <= Pieces["size"] + size
            /\ downGot' = n
            /\ n # Pieces["size"] + size \/ cpc' = "fclose_local"
      BY <2>4 DEF RecvLocal
    <3> QED
      BY <2>4, <3>1, Layout DEF RecvLocal
  <2>5. CASE CloseLocal \/ RemoveLocal \/ RecvResponse \/ RecvListing \/ RecvEnds
    BY <2>5 DEF CloseLocal, RemoveLocal, RecvResponse, RecvListing, RecvEnds, AfterEnd
  <2>6. CASE CloseClient \/ ConnectFails \/ SourceEnds \/ OpenLocalFails
    BY <2>6 DEF CloseClient, ConnectFails, SourceEnds, OpenLocalFails
  <2>7. CASE WriteLocalFails \/ CloseLocalFails \/ RemoveLocalFails \/ ClientKilled
    BY <2>7 DEF WriteLocalFails, CloseLocalFails, RemoveLocalFails, ClientKilled
  <2> QED
    BY <1>1, <2>1, <2>2, <2>3, <2>4, <2>5, <2>6, <2>7
    DEF ClientMoves, ClientStep, ClientFails
<1>2. ASSUME ServerMoves PROVE StreamsOK'
  <2>1. cpc # "recv_data" \/ UNCHANGED size
    BY <1>2, ServerFrame, NotReceiving DEF Unanswered, ReplyPcs
  <2>2. cpc' = cpc /\ downGot' = downGot /\ upSent' = upSent
    BY <1>2, ServerFrame
  <2>3. CASE AcceptClient
    BY <2>3 DEF AcceptClient
  <2>4. CASE ReceiveMore
    BY <2>4 DEF ReceiveMore, Receive, FieldPcs
  <2>5. CASE ReceiveOperation \/ ReceiveOperationCut
    <3>1. PICK n \in upGot + 1 .. upSent : upGot' = n /\ mark' = n
      BY <2>5 DEF ReceiveOperation, ReceiveOperationCut, Receive
    <3>2. spc' # "data" /\ UNCHANGED <<size, downSent>>
      BY <2>5 DEF ReceiveOperation, ReceiveOperationCut, NameField
    <3> QED
      BY <2>2, <3>1, <3>2
  <2>6. CASE ReceiveName \/ ReceiveNameCut
    <3>1. PICK n \in upGot + 1 .. upSent : upGot' = n /\ mark' = n
      BY <2>6 DEF ReceiveName, ReceiveNameCut, Receive
    <3>2. PICK ok \in BOOLEAN : Validate(ok)
      <4>1. cmd.valid \in BOOLEAN
        BY TransferAssumption
      <4> QED
        BY <2>6, <4>1, Zenon DEF ReceiveName, ReceiveNameCut
    <3>4. spc' # "data" /\ size' \in Int
      BY <3>2 DEF Validate, AfterName
    <3>3. downSent' = downSent
      BY <2>6 DEF ReceiveName, ReceiveNameCut
    <3>5. upGot' \in 0 .. upSent' /\ mark' \in 0 .. upGot' /\ upSent' \in Nat
      BY <2>2, <3>1
    <3>6. cpc' = "recv_data" => downGot' < Pieces["size"] + size'
      BY <2>1, <2>2
    <3>7. downSent' \in Nat /\ downGot' \in 0 .. downSent'
      BY <2>2, <3>3
    <3> QED
      BY <3>3, <3>4, <3>5, <3>6, <3>7
  <2>7. CASE ReceiveSize
    <3>1. PICK n \in upGot + 1 .. upSent : upGot' = n /\ mark' = n
      BY <2>7 DEF ReceiveSize, Receive
    <3>2. size' \in Int
      <4>1. CASE Correctly("size")
        <5>1. Uploading /\ End("string") < upSent
          BY <2>7, <4>1, <3>1, Layout
          DEF ReceiveSize, Receive, Correctly, Aligned, ControlInv
        <5>2. source \in Files
          BY <5>1, Layout DEF FilesOK, LayoutInv
        <5> QED
          BY <2>7, <4>1, <5>2 DEF ReceiveSize, Files
      <4>2. CASE ~Correctly("size")
        BY <2>7, <4>2, TransferAssumption DEF ReceiveSize
      <4> QED
        BY <4>1, <4>2
    <3>3. spc' # "data" /\ downSent' = downSent
      BY <2>7 DEF ReceiveSize
    <3>5. upGot' \in 0 .. upSent' /\ mark' \in 0 .. upGot' /\ upSent' \in Nat
      BY <2>2, <3>1
    <3>6. cpc' = "recv_data" => downGot' < Pieces["size"] + size'
      BY <2>1, <2>2
    <3>7. downSent' \in Nat /\ downGot' \in 0 .. downSent'
      BY <2>2, <3>3
    <3> QED
      BY <3>2, <3>3, <3>5, <3>6, <3>7
  <2>8. CASE ReceiveFails \/ MakeDirectories \/ Backup \/ BackupFails \/ CreateFails
    BY <2>8
    DEF ReceiveFails, MakeDirectories, Backup, BackupFails, CreateFails, AfterFailure
  <2>9. CASE Create
    BY <2>9 DEF Create, LayoutInv
  <2>10. CASE ReceiveData
    BY <2>10 DEF ReceiveData, LastChunk
  <2>11. CASE Saved \/ SavedInPart \/ RemovePartial \/ RemovePartialFails
    BY <2>11 DEF Saved, SavedInPart, RemovePartial, RemovePartialFails
  <2>12. CASE Lookup \/ LookupFails \/ Delete \/ DeleteInPart \/ List \/ ListInPart
    <3>1. spc' # "data" /\ UNCHANGED <<upGot, mark, downSent>>
      BY <2>12 DEF Lookup, LookupFails, Delete, DeleteInPart, List, ListInPart
    <3>2. size' \in Int
      <4>1. CASE Lookup
        <5>1. opened' \in Files \cup {Absent}
          BY <4>1, FoundFile DEF Lookup
        <5> QED
          BY <4>1, <5>1 DEF Lookup, Files
      <4>2. CASE List \/ ListInPart
        <5>1. Len(kept) \in Nat
          BY DEF FilesOK
        <5> QED
          BY <4>2, <5>1 DEF List, ListInPart
      <4> QED
        BY <2>12, <4>1, <4>2 DEF LookupFails, Delete, DeleteInPart
    <3> QED
      BY <2>1, <2>2, <3>1, <3>2
  <2>13. CASE SendReply
    <3>1. PICK n \in downSent + 1 .. ReplyEnd : downSent' = n
      BY <2>13 DEF SendReply
    <3>2. spc' # "data"
      BY <2>13 DEF SendReply, ReplyPcs
    <3> QED
      BY <2>13, <3>1, <3>2 DEF SendReply
  <2>14. CASE SendReplyFails \/ CloseServer \/ ReadEnds \/ ServerKilled
    BY <2>14 DEF SendReplyFails, CloseServer, ReadEnds, ServerKilled
  <2> QED
    BY <1>2, <2>3, <2>4, <2>5, <2>6, <2>7, <2>8, <2>9, <2>10, <2>11, <2>12, <2>13, <2>14
    DEF ServerMoves, ServerStep, ServerFails
<1> QED
  BY <1>1, <1>2, Steps DEF vars, serverVars

\* Every step leaves the flags Boolean.
LEMMA FlagsStep == TransferInv /\ [Next]_vars => FlagsOK'
<1> SUFFICES ASSUME TransferInv, [Next]_vars PROVE FlagsOK'
  OBVIOUS
<1>1. ignored' \subseteq Unheeded /\ trouble' \in BOOLEAN
  BY Steps, ClientFrame, ServerFrame
  DEF TransferInv, TypeOK, FlagsOK, Unheeded, vars, failVars
<1>2. cOpen' \in BOOLEAN /\ sOpen' \in BOOLEAN
  <2> USE DEF TransferInv, TypeOK, FlagsOK
  <2>1. ASSUME ClientMoves PROVE cOpen' \in BOOLEAN /\ sOpen' \in BOOLEAN
    <3>1. cOpen' = cOpen \/ cOpen' = TRUE \/ cOpen' = FALSE
      BY <2>1
      DEF ClientMoves, ClientStep, ClientFails, Connect, Send, SendFails, OpenSource,
          RecvFileSize, OpenLocal, RecvLocal, CloseLocal, RemoveLocal, RecvResponse,
          RecvListing, RecvEnds, CloseClient, ConnectFails, SourceEnds, OpenLocalFails,
          WriteLocalFails, CloseLocalFails, RemoveLocalFails, ClientKilled, clientVars
    <3>2. sOpen' = sOpen \/ sOpen' = TRUE
      BY <2>1, ClientFrame DEF Connect
    <3> QED
      BY <3>1, <3>2
  <2>2. ASSUME ServerMoves PROVE cOpen' \in BOOLEAN /\ sOpen' \in BOOLEAN
    <3>1. sOpen' = sOpen \/ sOpen' = FALSE
      BY <2>2
      DEF ServerMoves, ServerStep, ServerFails, AcceptClient, ReceiveMore,
          ReceiveOperation, ReceiveOperationCut, ReceiveName, ReceiveNameCut,
          ReceiveSize, ReceiveFails, MakeDirectories, Backup, BackupFails, Create,
          CreateFails, ReceiveData, Saved, SavedInPart, RemovePartial,
          RemovePartialFails, Lookup, LookupFails, Delete, DeleteInPart, List,
          ListInPart, SendReply, SendReplyFails, ReadEnds, CloseServer, ServerKilled
    <3> QED
      BY <2>2, <3>1, ServerFrame DEF clientVars
  <2> QED
    BY <2>1, <2>2, Steps DEF vars, clientVars, serverVars
<1> QED
  BY <1>1, <1>2 DEF FlagsOK

\* Every step keeps ControlInv.
LEMMA ControlStep == TransferInv /\ [Next]_vars => ControlInv'
<1> SUFFICES ASSUME TransferInv, [Next]_vars PROVE ControlInv'
  OBVIOUS
<1> USE DEF TransferInv, TypeOK, ControlInv, Downloading, Uploading, Op, ClientPcs,
            ServerPcs, SendPcs, RecvPcs, ClientEnd, FieldPcs, ReplyPcs, ServerEnd,
            before, clientVars, serverVars, store, up, down
<1>1. CASE Connect
  BY <1>1 DEF Connect
<1>2. CASE Send
  BY <1>2, Operations DEF Send, SendTo, AfterSend, SendPcs, Ops
<1>3. CASE SendFails \/ OpenSource \/ RecvFileSize \/ OpenLocal
  BY <1>3 DEF SendFails, OpenSource, RecvFileSize, OpenLocal
<1>4. CASE RecvLocal \/ RemoveLocal \/ CloseLocal \/ RecvResponse \/ RecvListing
  BY <1>4 DEF RecvLocal, RemoveLocal, CloseLocal, RecvResponse, RecvListing
<1>5. CASE RecvEnds \/ CloseClient \/ ConnectFails \/ SourceEnds
  BY <1>5
  DEF RecvEnds, CloseClient, ConnectFails, SourceEnds, AfterEnd
<1>6. CASE \/ OpenLocalFails \/ WriteLocalFails \/ CloseLocalFails \/ RemoveLocalFails
           \/ ClientKilled
  BY <1>6 DEF OpenLocalFails, WriteLocalFails, CloseLocalFails, RemoveLocalFails,
              ClientKilled
<1>7. CASE AcceptClient \/ ReceiveMore \/ ReceiveOperation \/ ReceiveOperationCut
  BY <1>7
  DEF AcceptClient, ReceiveMore, ReceiveOperation, ReceiveOperationCut, Receive,
      FieldDone, Correctly, Aligned, NameField
<1>8. CASE ReceiveName \/ ReceiveNameCut
  BY <1>8, Operations DEF ReceiveName, ReceiveNameCut, Receive, NameField, Validate,
                          AfterName, Ops
<1>9. CASE ReceiveSize \/ ReceiveFails \/ MakeDirectories \/ Backup \/ BackupFails
  BY <1>9
  DEF ReceiveSize, ReceiveFails, MakeDirectories, Backup, BackupFails, Receive, FieldDone,
      Correctly, Aligned, AfterFailure
<1>10. CASE \/ Create \/ CreateFails \/ ReceiveData \/ Saved \/ SavedInPart
            \/ RemovePartial \/ RemovePartialFails
  BY <1>10
  DEF Create, CreateFails, ReceiveData, Saved, SavedInPart, RemovePartial,
      RemovePartialFails, LastChunk
<1>11. CASE \/ Lookup \/ LookupFails \/ Delete \/ DeleteInPart \/ List \/ ListInPart
            \/ SendReply
  BY <1>11
  DEF Lookup, LookupFails, Delete, DeleteInPart, List, ListInPart, SendReply, ReplyEnd
<1>12. CASE SendReplyFails \/ CloseServer \/ ReadEnds \/ ServerKilled
  BY <1>12 DEF SendReplyFails, CloseServer, ReadEnds, ServerKilled
<1>13. CASE UNCHANGED vars
  BY <1>13 DEF vars
<1> QED
  BY <1>1, <1>2, <1>3, <1>4, <1>5, <1>6, <1>7, <1>8, <1>9, <1>10, <1>11, <1>12, <1>13
  DEF Next, ClientStep, ClientFails, ServerStep, ServerFails

\* Every step keeps LayoutInv.
LEMMA LayoutStep == TransferInv /\ [Next]_vars => LayoutInv'
<1> SUFFICES ASSUME TransferInv, [Next]_vars PROVE LayoutInv'
  OBVIOUS
<1> USE Layout
    DEF TransferInv, TypeOK, PcsOK, StreamsOK, ControlInv, LayoutInv, Uploading, Op,
        ClientPcs, ServerPcs, SendPcs, RecvPcs, ClientEnd, FieldPcs, ReplyPcs,
        ServerEnd, before, clientVars, serverVars, store, up, down
<1>1. CASE Connect \/ Send \/ SendFails \/ OpenSource
  BY <1>1
  DEF Connect, Send, SendFails, OpenSource, SendTo, AfterSend, NameField
<1>2. CASE RecvFileSize \/ OpenLocal \/ RecvLocal \/ RemoveLocal \/ CloseLocal
  BY <1>2 DEF RecvFileSize, OpenLocal, RecvLocal, RemoveLocal, CloseLocal
<1>3. CASE RecvResponse \/ RecvListing \/ RecvEnds \/ CloseClient
  BY <1>3
  DEF RecvResponse, RecvListing, RecvEnds, CloseClient, AfterEnd
<1>4. CASE \/ ConnectFails \/ SourceEnds \/ OpenLocalFails \/ WriteLocalFails
           \/ CloseLocalFails \/ RemoveLocalFails
  BY <1>4 DEF ConnectFails, SourceEnds, OpenLocalFails, WriteLocalFails,
              CloseLocalFails, RemoveLocalFails
<1>5. CASE ClientKilled
  BY <1>5 DEF ClientKilled
<1>6. CASE AcceptClient \/ ReceiveMore \/ ReceiveOperation \/ ReceiveOperationCut
  BY <1>6
  DEF AcceptClient, ReceiveMore, ReceiveOperation, ReceiveOperationCut, Receive,
      FieldDone, Correctly, Aligned, NameField
<1>7. CASE ReceiveName
  <2>1. PICK n \in upGot + 1 .. upSent : upGot' = n /\ mark' = n
    BY <1>7 DEF ReceiveName, Receive
  <2>2. n = End(NameField) /\ name' = "sent"
    BY <1>7, <2>1 DEF ReceiveName, Correctly, Aligned
  <2>3. spc' = "size" => Uploading
    BY <1>7 DEF ReceiveName, Validate, AfterName
  <2>4. spc' \notin {"none", "pending", "op", "string", "name", "dirs", "exists", "create",
                     "data", "saved"}
    BY <1>7 DEF ReceiveName, Validate, AfterName
  <2> QED
    BY <1>7, <2>1, <2>2, <2>3, <2>4 DEF ReceiveName, NameField
<1>14. CASE ReceiveNameCut
  <2>1. ~Uploading
    <3> SUFFICES ASSUME Uploading PROVE FALSE
      OBVIOUS
    <3>1. NameField = "string" /\ spc = "string" /\ mark = Start("string")
      BY <1>14, Layout DEF ReceiveNameCut, Receive, NameField
    <3>2. PICK n \in upGot + 1 .. upSent : upGot' = n /\ n - mark = Pieces["string"]
      BY <1>14, <3>1 DEF ReceiveNameCut, Receive, FieldDone
    <3>3. upGot' = End("string")
      BY <3>1, <3>2, Layout
    <3> QED
      BY <1>14, <3>1, <3>3 DEF ReceiveNameCut, Correctly, Aligned
  <2>2. spc' \notin {"none", "pending", "op", "string", "name", "dirs", "exists", "create",
                     "data", "saved", "size"}
    BY <1>14, <2>1 DEF ReceiveNameCut, Validate, AfterName
  <2> QED
    BY <1>14, <2>1, <2>2 DEF ReceiveNameCut
<1>8. CASE ReceiveSize
  BY <1>8
  DEF ReceiveSize, Receive, FieldDone, Correctly, Aligned
<1>9. CASE \/ ReceiveFails \/ MakeDirectories \/ Backup \/ BackupFails \/ Create
           \/ CreateFails
  BY <1>9
  DEF ReceiveFails, MakeDirectories, Backup, BackupFails, Create, CreateFails,
      AfterFailure
<1>10. CASE \/ ReceiveData \/ Saved \/ SavedInPart \/ RemovePartial
            \/ RemovePartialFails \/ Lookup \/ LookupFails
  BY <1>10
  DEF ReceiveData, Saved, SavedInPart, RemovePartial, RemovePartialFails, Lookup,
      LookupFails, LastChunk
<1>11. CASE Delete \/ DeleteInPart \/ List \/ ListInPart \/ SendReply \/ SendReplyFails
  BY SMTT(30), <1>11
  DEF Delete, DeleteInPart, List, ListInPart, SendReply, SendReplyFails, ReplyEnd
<1>12. CASE CloseServer \/ ReadEnds \/ ServerKilled
  BY <1>12 DEF CloseServer, ReadEnds, ServerKilled
<1>13. CASE UNCHANGED vars
  BY <1>13 DEF vars
<1> QED
  BY <1>1, <1>2, <1>3, <1>4, <1>5, <1>6, <1>7, <1>8, <1>9, <1>10, <1>11, <1>12, <1>13, <1>14
  DEF Next, ClientStep, ClientFails, ServerStep, ServerFails

\* Every step keeps AnswerInv.
LEMMA AnswerStep == TransferInv /\ [Next]_vars => AnswerInv'
<1> SUFFICES ASSUME TransferInv, [Next]_vars PROVE AnswerInv'
  OBVIOUS
<1> USE DEF AnswerInv, Unanswered, ReplyPcs, Downloading, Uploading, Op, Wanted, before,
            store
<1>1. ASSUME ClientMoves PROVE AnswerInv'
  BY <1>1, ClientFrame DEF TransferInv, ControlInv, Connect
<1>2. ASSUME ServerMoves PROVE AnswerInv'
  <2>1. cmd' = cmd /\ (UNCHANGED opened \/ Lookup) /\ (UNCHANGED downSent \/ SendReply)
    BY <1>2, ServerFrame
  <2>2. CASE \/ AcceptClient \/ ReceiveMore \/ ReceiveOperation \/ ReceiveOperationCut
             \/ ReceiveSize \/ ReceiveFails
    <3>1. spc \in FieldPcs \cup {"pending", "data"}
            /\ spc' \in FieldPcs \cup {"dirs", "remove", "close"}
            /\ UNCHANGED <<opened, downSent>>
      BY <2>2
      DEF AcceptClient, ReceiveMore, ReceiveOperation, ReceiveOperationCut, ReceiveSize,
          ReceiveFails, Receive, AfterFailure, NameField, FieldPcs, down
    <3> QED
      BY <2>1, <3>1 DEF TransferInv, FieldPcs
  <2>3. CASE ReceiveName \/ ReceiveNameCut
    <3>1. spc \in {"string", "name"} /\ UNCHANGED <<opened, downSent>>
      BY <2>3 DEF ReceiveName, ReceiveNameCut, Receive, NameField, down
    <3>2. PICK ok \in BOOLEAN : Validate(ok)
      <4>1. cmd.valid \in BOOLEAN
        BY TransferAssumption DEF TransferInv, TypeOK
      <4> QED
        BY <2>3, <4>1, Zenon DEF ReceiveName, ReceiveNameCut
    <3>3. spc' \in {"size", "delete", "list", "lookup", "close", "reply", "send_size"}
            /\ (spc' = "send_size" => size' = -1)
      BY <3>2 DEF Validate, AfterName
    <3> QED
      BY <2>1, <3>1, <3>3 DEF TransferInv
  <2>4. CASE \/ MakeDirectories \/ Backup \/ BackupFails \/ Create \/ CreateFails
             \/ ReceiveData \/ Saved \/ SavedInPart \/ RemovePartial \/ RemovePartialFails
    <3>1. /\ spc \in {"dirs", "exists", "create", "data", "saved", "remove"}
          /\ spc' \in {"dirs", "exists", "create", "data", "saved", "remove", "close"}
          /\ UNCHANGED <<opened, downSent>>
      BY <2>4
      DEF MakeDirectories, Backup, BackupFails, Create, CreateFails, ReceiveData, Saved,
          SavedInPart, RemovePartial, RemovePartialFails, LastChunk, down
    <3> QED
      BY <2>1, <3>1 DEF TransferInv
  <2>5. CASE Lookup
    BY <2>1, <2>5 DEF TransferInv, ControlInv, Lookup, Found, down
  <2>6. CASE LookupFails
    BY <2>1, <2>6 DEF TransferInv, ControlInv, LookupFails, down
  <2>7. CASE Delete \/ DeleteInPart \/ List \/ ListInPart
    <3>1. /\ spc \in {"delete", "list"} /\ spc' = "reply" /\ Op \in {"RM", "LS"}
          /\ UNCHANGED <<opened, downSent>>
      BY <2>7 DEF Delete, DeleteInPart, List, ListInPart, TransferInv, ControlInv, down
    <3> QED
      BY <2>1, <3>1 DEF TransferInv
  <2>8. CASE SendReply
    <3>1. /\ spc \in ReplyPcs /\ spc' \in {spc, "send_data", "close"}
          /\ UNCHANGED <<size, opened, store, name>>
      BY <2>8 DEF SendReply
    <3>2. spc = "reply" => ~Downloading
      BY DEF TransferInv, ControlInv
    <3> QED
      BY <2>1, <3>1, <3>2 DEF TransferInv
  <2>9. CASE SendReplyFails \/ ReadEnds \/ CloseServer \/ ServerKilled
    <3>1. /\ spc' \in {"close", "done", "killed"}
          /\ UNCHANGED <<size, opened, downSent, store, name>>
      BY <2>9 DEF SendReplyFails, ReadEnds, CloseServer, ServerKilled, down
    <3> QED
      BY <2>1, <3>1 DEF TransferInv
  <2> QED
    BY <1>2, <2>2, <2>3, <2>4, <2>5, <2>6, <2>7, <2>8, <2>9
    DEF ServerMoves, ServerStep, ServerFails
<1> QED
  BY <1>1, <1>2, Steps DEF TransferInv, vars, serverVars, down

\* Every step keeps EndsInv.
LEMMA EndsStep == TransferInv /\ [Next]_vars => EndsInv'
<1> SUFFICES ASSUME TransferInv, [Next]_vars PROVE EndsInv'
  OBVIOUS
<1>a. trouble \in BOOLEAN /\ opened \in Files \cup {Absent} /\ size \in Int
  BY DEF TransferInv, TypeOK, FlagsOK, FilesOK, StreamsOK
<1>b. /\ Unanswered => opened = Absent
      /\ opened # Absent => Downloading
  BY DEF TransferInv, AnswerInv
<1> USE DEF EndsInv, ClientEnd, ServerEnd, Uploading, Op, before
<1>1. ASSUME ClientMoves PROVE EndsInv'
  <2>1. UNCHANGED <<cmd, mark, upGot, downSent, opened, size>>
    BY <1>1, ClientFrame
  <2>2. trouble' = trouble \/ trouble' = TRUE
    BY <1>1, ClientFrame
  <2>3. (UNCHANGED <<spc, sOpen>>) \/ Connect
    BY <1>1, ClientFrame
  <2>4. sOpen' <=> spc' \notin ServerEnd
    BY <2>3 DEF TransferInv, Connect
  <2>5. cOpen' <=> cpc' \notin ClientEnd \cup {"connect"}
    <3>1. CASE Connect \/ Send \/ SendFails \/ OpenSource
      BY <3>1 DEF TransferInv, Connect, Send, SendFails, OpenSource, AfterSend, SendPcs
    <3>2. CASE RecvFileSize \/ OpenLocal \/ RecvLocal \/ CloseLocal \/ RemoveLocal
      BY <3>2 DEF TransferInv, RecvFileSize, OpenLocal, RecvLocal, CloseLocal, RemoveLocal
    <3>3. CASE RecvResponse \/ RecvListing \/ RecvEnds \/ CloseClient
      BY <3>3
      DEF TransferInv, RecvResponse, RecvListing, RecvEnds, CloseClient, RecvPcs,
          clientVars
    <3>4. CASE ConnectFails \/ SourceEnds \/ OpenLocalFails \/ WriteLocalFails
      BY <3>4 DEF TransferInv, ConnectFails, SourceEnds, OpenLocalFails, WriteLocalFails
    <3>5. CASE CloseLocalFails \/ RemoveLocalFails \/ ClientKilled
      BY <3>5 DEF TransferInv, CloseLocalFails, RemoveLocalFails, ClientKilled
    <3> QED
      BY <1>1, <3>1, <3>2, <3>3, <3>4, <3>5 DEF ClientMoves, ClientStep, ClientFails
  <2>6. ~Uploading => upSent' <= End("name")
    <3>1. CASE Send
      <4>1. PICK n \in upSent + 1 .. SendTo : upSent' = n
        BY <3>1 DEF Send
      <4>2. ~Uploading => SendTo \in {End("op"), End("name")}
        BY <3>1 DEF Send, SendPcs, SendTo, NameField, TransferInv, ControlInv
      <4>3. upSent \in Nat
        BY DEF TransferInv, TypeOK, StreamsOK
      <4> QED
        BY <4>1, <4>2, <4>3, Layout
    <3>2. CASE upSent' = upSent
      BY <3>2 DEF TransferInv
    <3> QED
      BY <1>1, <3>1, <3>2
      DEF ClientMoves, ClientStep, ClientFails, Connect, SendFails, OpenSource,
          RecvFileSize, OpenLocal, RecvLocal, CloseLocal, RemoveLocal, RecvResponse,
          RecvListing, RecvEnds, CloseClient, ConnectFails, SourceEnds, OpenLocalFails,
          WriteLocalFails, CloseLocalFails, RemoveLocalFails, ClientKilled, up
  <2>7. CASE Connect
    <3>1. spc' = "pending" /\ opened = Absent
      BY <1>b, <2>7 DEF Connect, TransferInv, ControlInv, Unanswered, ReplyPcs
    <3> QED
      BY <2>1, <2>2, <2>4, <2>5, <2>6, <3>1
  <2>8. CASE UNCHANGED <<spc, sOpen>>
    <3>1. cOpen' => cOpen \/ Connect
      BY <1>1, <2>5
      DEF ClientMoves, ClientStep, ClientFails, Send, SendFails, OpenSource,
          RecvFileSize, OpenLocal, RecvLocal, CloseLocal, RemoveLocal, RecvResponse,
          RecvListing, RecvEnds, CloseClient, ConnectFails, SourceEnds, OpenLocalFails,
          WriteLocalFails, CloseLocalFails, RemoveLocalFails, ClientKilled, clientVars
    <3> QED
      BY <2>1, <2>2, <2>4, <2>5, <2>6, <2>7, <2>8, <3>1 DEF TransferInv
  <2> QED
    BY <2>3, <2>7, <2>8
<1>2. ASSUME ServerMoves PROVE EndsInv'
  <2> USE DEF clientVars
  <2>1. UNCHANGED <<cmd, cpc, cOpen, upSent>> /\ (trouble' = trouble \/ trouble' = TRUE)
    BY <1>2, ServerFrame
  <2>2. CASE AcceptClient \/ ReceiveMore
    <3>1. /\ Unanswered /\ UNCHANGED <<opened, sOpen, trouble>>
          /\ \/ spc' = "op"
             \/ spc' = spc /\ mark' = mark /\ spc \in FieldPcs
      BY <2>2 DEF AcceptClient, ReceiveMore, Receive, Unanswered, ReplyPcs, FieldPcs,
                  failVars
    <3>2. sOpen
      <4>1. spc \in {"pending", "op", "string", "name", "size"}
        BY <2>2 DEF AcceptClient, ReceiveMore, Receive, FieldPcs
      <4>2. spc \notin ServerEnd
        BY <4>1 DEF ServerEnd
      <4> QED
        BY <4>2 DEF TransferInv
    <3> QED
      BY <1>b, <2>1, <3>1, <3>2 DEF TransferInv, FieldPcs
  <2>3. CASE ReceiveOperation
    <3>1. /\ spc = "op" /\ UNCHANGED <<opened, sOpen, trouble>> /\ opened = Absent /\ sOpen
          /\ spc' \in {"close", "string", "name"} /\ mark' = upGot'
      BY <1>b, <2>3
      DEF ReceiveOperation, Receive, NameField, Unanswered, ReplyPcs, failVars, TransferInv
    <3>2. mark' = End("op")
      BY <2>3, <3>1 DEF ReceiveOperation, Correctly, Aligned
    <3> QED
      BY <2>1, <3>1, <3>2 DEF TransferInv
  <2>4. CASE ReceiveName
    <3>1. /\ UNCHANGED <<opened, sOpen, trouble>> /\ opened = Absent /\ sOpen
          /\ upGot' = End(NameField)
      BY <1>b, <2>4
      DEF ReceiveName, Receive, NameField, Unanswered, ReplyPcs, failVars, TransferInv,
          Correctly, Aligned
    <3>2. /\ spc' \in {"size", "delete", "list", "lookup", "close", "reply", "send_size"}
          /\ spc' \in {"lookup", "send_size"} => ~Uploading
      BY <2>4 DEF ReceiveName, Validate, AfterName
    <3> QED
      BY <2>1, <3>1, <3>2 DEF TransferInv, NameField
  <2>5. CASE \/ ReceiveSize \/ ReceiveFails \/ MakeDirectories \/ Backup \/ Create
             \/ ReceiveData \/ Saved \/ RemovePartial \/ Delete \/ List
    <3>1. /\ Unanswered /\ UNCHANGED <<opened, sOpen>>
          /\ spc' \in {"dirs", "exists", "create", "data", "saved", "remove", "reply", "close"}
      BY <2>5
      DEF ReceiveSize, ReceiveFails, MakeDirectories, Backup, Create, ReceiveData, Saved,
          RemovePartial, Delete, List, Receive, AfterFailure, FieldPcs, Unanswered,
          ReplyPcs
    <3>2. sOpen
      <4>1. spc \notin ServerEnd
        BY <2>5
        DEF ReceiveSize, ReceiveFails, MakeDirectories, Backup, Create, ReceiveData,
            Saved, RemovePartial, Delete, List, Receive, FieldPcs
      <4> QED
        BY <4>1 DEF TransferInv
    <3> QED
      BY <1>b, <2>1, <3>1, <3>2 DEF TransferInv
  <2>6. CASE \/ ReceiveOperationCut \/ ReceiveNameCut \/ BackupFails \/ CreateFails
             \/ SavedInPart \/ RemovePartialFails \/ LookupFails \/ DeleteInPart
             \/ ListInPart \/ ReadEnds \/ ServerKilled
    <3>1. trouble' = TRUE /\ spc \notin ServerEnd
      BY <2>6
      DEF ReceiveOperationCut, ReceiveNameCut, Receive, NameField, BackupFails,
          CreateFails, SavedInPart, RemovePartialFails, LookupFails, DeleteInPart,
          ListInPart, ReadEnds, ServerKilled, Fail, FailAt
    <3>2. \/ sOpen' = sOpen /\ spc' \notin ServerEnd
          \/ sOpen' = FALSE /\ spc' = "killed"
      BY <2>6
      DEF ReceiveOperationCut, ReceiveNameCut, Validate, AfterName, NameField, BackupFails,
          CreateFails, SavedInPart, RemovePartialFails, LookupFails, DeleteInPart,
          ListInPart, ReadEnds, ServerKilled
    <3> QED
      BY <2>1, <3>1, <3>2 DEF TransferInv
  <2>7. CASE Lookup
    BY <2>1, <2>7 DEF Lookup, TransferInv, failVars, up, down
  <2>8. CASE SendReply
    <3>1. /\ spc \in ReplyPcs /\ spc' \in ReplyPcs \cup {"close"}
          /\ UNCHANGED <<sOpen, opened, size, mark, trouble, upGot>>
          /\ spc' \in {"send_size", "send_data"} => spc \in {"send_size", "send_data"}
      BY <2>8 DEF SendReply, ReplyPcs, failVars, up
    <3>2. opened # Absent /\ spc' = "close" => downSent' = Pieces["size"] + size
      <4> SUFFICES ASSUME opened # Absent, spc' = "close"
                   PROVE  downSent' = Pieces["size"] + size
        OBVIOUS
      <4>1. PICK n \in downSent + 1 .. ReplyEnd :
              /\ downSent' = n
              /\ spc' = IF n < ReplyEnd THEN spc
                        ELSE IF spc = "send_size" /\ size > 0 THEN "send_data" ELSE "close"
        BY <2>8 DEF SendReply
      <4>2. spc \in {"send_size", "send_data"} /\ size = opened.len
        BY <1>b, <3>1 DEF TransferInv, ControlInv, AnswerInv, Downloading, ReplyPcs
      <4>3. size \in Nat
        BY <1>a, <4>2 DEF Files
      <4>4. downSent \in Nat /\ ReplyEnd \in Int
        BY <4>2, <4>3, Layout DEF TransferInv, TypeOK, StreamsOK, ReplyEnd
      <4>5. n = ReplyEnd /\ ~(spc = "send_size" /\ size > 0)
        BY <3>1, <4>1, <4>4 DEF ReplyPcs
      <4>6. ReplyEnd = Pieces["size"] + size
        BY <4>2, <4>3, <4>5, Layout DEF ReplyEnd
      <4> QED
        BY <4>1, <4>5, <4>6
    <3>3. spc' \notin ServerEnd \cup {"name", "lookup"} /\ spc \notin ServerEnd
      BY <3>1 DEF ReplyPcs
    <3> QED
      BY <2>1, <3>1, <3>2, <3>3 DEF TransferInv
  <2>9. CASE SendReplyFails
    BY <2>1, <2>9 DEF SendReplyFails, TransferInv, ReplyPcs, failVars, up, down
  <2>10. CASE CloseServer
    BY <2>1, <2>10 DEF CloseServer, TransferInv, failVars, up, down
  <2> QED
    BY <1>2, <2>2, <2>3, <2>4, <2>5, <2>6, <2>7, <2>8, <2>9, <2>10
    DEF ServerMoves, ServerStep, ServerFails
<1> QED
  BY <1>1, <1>2, Steps
  DEF TransferInv, vars, clientVars, serverVars, up, down, failVars

\* A client that waits for the rest of a file, and sees the connection at its end, has
\* met a call that failed.
LEMMA EndIsTrouble ==
  ASSUME TransferInv, RecvEnds, cpc = "recv_data"
  PROVE  trouble
<1>1. cOpen /\ spc \in {"done", "killed"} /\ opened # Absent
  <2>1. cOpen /\ spc \in ServerEnd /\ opened # Absent /\ downGot > 0
    BY DEF TransferInv, EndsInv, ClientEnd, RecvEnds, LocalInv
  <2>2. spc # "none"
    BY <2>1 DEF TransferInv, AnswerInv, Unanswered, ReplyPcs
  <2> QED
    BY <2>1, <2>2 DEF ServerEnd
<1>2. SUFFICES ASSUME ~trouble PROVE FALSE
  OBVIOUS
<1>3. spc = "done" /\ upGot = End("name") /\ downSent = Pieces["size"] + size
  BY <1>1, <1>2 DEF TransferInv, EndsInv
<1>4. downGot < downSent
  BY <1>3 DEF TransferInv, TypeOK, StreamsOK
<1>5. upSent <= upGot
  BY <1>1, <1>3 DEF TransferInv, EndsInv, AnswerInv, Downloading, Uploading
<1>6. downGot = downSent \/ upGot < upSent
  BY DEF RecvEnds
<1> QED
  BY <1>4, <1>5, <1>6 DEF TransferInv, TypeOK, StreamsOK

\* Every step keeps LocalInv.
LEMMA LocalStep == TransferInv /\ [Next]_vars => LocalInv'
<1> SUFFICES ASSUME TransferInv, [Next]_vars PROVE LocalInv'
  OBVIOUS
<1> USE DEF LocalInv, Heeded
<1>1. ASSUME ClientMoves PROVE LocalInv'
  <2>1. UNCHANGED <<source, opened, size, downSent>>
        /\ (trouble' = trouble \/ trouble' = TRUE)
    BY <1>1, ClientFrame DEF before
  <2>2. \A n : Downloaded(n)' = Downloaded(n)
    BY <2>1 DEF Downloaded
  <2>3. ignored \subseteq ignored'
    BY <1>1, ClientFrame
  <2>4. CASE Connect \/ Send \/ SendFails \/ OpenSource
    <3>1. /\ cpc \notin {"recv_data", "fclose_local", "remove_local", "close", "done", "killed"}
          /\ cpc' \notin {"open_local", "recv_data", "fclose_local", "remove_local"}
          /\ local' = local /\ outcome' # "received"
          /\ cpc' \notin {"close", "done", "killed"} => outcome' = "none"
      BY <2>4
      DEF TransferInv, Connect, Send, SendFails, OpenSource, SendPcs, AfterSend
    <3> QED
      BY <2>1, <3>1 DEF TransferInv
  <2>5. CASE RecvFileSize
    <3>1. PICK n \in downGot + 1 .. downSent :
            /\ n <= Pieces["size"]
            /\ downGot' = n
            /\ IF n < Pieces["size"] THEN UNCHANGED <<cpc, outcome>>
               ELSE IF size < 0 THEN cpc' = "close" /\ outcome' = "failed"
               ELSE cpc' = "open_local" /\ UNCHANGED outcome
      BY <2>5 DEF RecvFileSize
    <3>2. local = source /\ local' = local /\ cpc = "recv_size"
      BY <2>5 DEF RecvFileSize, TransferInv
    <3>3. downGot \in Nat /\ downSent \in Nat /\ downSent > 0
      BY <3>1 DEF TransferInv, TypeOK, StreamsOK
    <3>4. n >= Pieces["size"] => n = Pieces["size"]
      BY <3>1, <3>3, Layout
    <3>5. cpc' = "open_local" => opened # Absent /\ downGot' = Pieces["size"] /\ downGot' > 0
      <4>1. cpc' = "open_local" => n = Pieces["size"] /\ ~(size < 0)
        BY <3>1, <3>2, <3>3, <3>4, Layout
      <4>2. Downloading
        BY <3>2 DEF TransferInv, ControlInv
      <4>3. opened = Absent => size = -1
        BY <3>3, <4>2 DEF TransferInv, AnswerInv
      <4> QED
        BY <3>1, <4>1, <4>3, Layout
    <3>6. outcome = "none"
      BY <3>2 DEF TransferInv
    <3>7. cpc' \in {"recv_size", "close", "open_local"}
          /\ (outcome' = outcome \/ (outcome' = "failed" /\ cpc' = "close"))
      BY <3>1, <3>2
    <3> QED
      BY <2>1, <3>2, <3>5, <3>6, <3>7
  <2>6. CASE OpenLocal
    <3>1. opened # Absent /\ size = opened.len /\ downGot = Pieces["size"] /\ outcome = "none"
      BY <2>6 DEF OpenLocal, TransferInv, AnswerInv, ControlInv, TypeOK, StreamsOK
    <3>2. local' = Downloaded(0) /\ (size = 0 => Downloaded(0) = opened)
      BY <2>6, <3>1, DownloadedFile DEF OpenLocal, TransferInv
    <3>3. /\ cpc' = (IF size = 0 THEN "fclose_local" ELSE "recv_data")
          /\ outcome' = outcome /\ downGot' = downGot
      BY <2>6 DEF OpenLocal, down
    <3>4. downGot - Pieces["size"] = 0 /\ Pieces["size"] > 0 /\ Pieces["size"] \in Nat
      BY <3>1, Layout
    <3> HIDE DEF Downloaded
    <3> QED
      BY <2>1, <2>2, <3>1, <3>2, <3>3, <3>4
  <2>7. CASE RecvLocal
    <3>1. /\ opened # Absent /\ size = opened.len /\ downGot >= Pieces["size"]
          /\ outcome = "none" /\ cpc = "recv_data" /\ downGot > 0
      BY <2>7 DEF RecvLocal, TransferInv, AnswerInv, ControlInv, TypeOK, StreamsOK
    <3>2. PICK n \in downGot + 1 .. downSent :
            /\ downGot' = n
            /\ local' = Downloaded(n - Pieces["size"])
            /\ cpc' = IF n = Pieces["size"] + size THEN "fclose_local" ELSE cpc
      BY <2>7 DEF RecvLocal
    <3>3. downGot \in Nat /\ downSent \in Nat /\ size \in Int
      BY DEF TransferInv, TypeOK, StreamsOK
    <3>4. n - Pieces["size"] \in Nat /\ n >= Pieces["size"] /\ n > 0
      BY <3>1, <3>2, <3>3, Layout
    <3>5. n = Pieces["size"] + size => Downloaded(n - Pieces["size"]) = opened
      BY <3>1, <3>3, <3>4, DownloadedFile, Layout DEF TransferInv
    <3>6. outcome' = outcome
      BY <2>7 DEF RecvLocal
    <3> HIDE DEF Downloaded
    <3> QED
      BY <2>1, <2>2, <3>1, <3>2, <3>4, <3>5, <3>6
  <2>8. CASE CloseLocal \/ CloseLocalFails
    <3>1. /\ cpc = "fclose_local" /\ cpc' = "close" /\ outcome' = "received"
          /\ local' = local \/ "fclose_local" \in ignored'
      BY <2>8 DEF CloseLocal, CloseLocalFails, FailAt
    <3> QED
      BY <2>1, <3>1 DEF TransferInv
  <2>9. CASE RemoveLocal \/ RemoveLocalFails
    <3>1. /\ cpc = "remove_local" /\ cpc' = "close" /\ outcome' = "failed"
          /\ local' = Absent \/ "remove_local" \in ignored'
      BY <2>9 DEF RemoveLocal, RemoveLocalFails, FailAt
    <3>2. trouble' = TRUE \/ (trouble' = trouble /\ trouble)
      BY <2>1, <3>1 DEF TransferInv
    <3> QED
      BY <2>1, <3>1, <3>2 DEF TransferInv
  <2>10. CASE RecvResponse \/ RecvListing
    BY <2>1, <2>10 DEF TransferInv, RecvResponse, RecvListing, clientVars
  <2>11. CASE RecvEnds
    <3>1. CASE cpc = "recv_data"
      <4>1. trouble'
        <5>1. trouble
          BY <2>11, <3>1, EndIsTrouble
        <5> QED
          BY <2>1, <5>1, Zenon
      <4>2. cpc' = "remove_local" /\ outcome' = "none" /\ UNCHANGED <<local, downGot>>
        BY <2>11, <3>1 DEF RecvEnds, AfterEnd, down
      <4> QED
        BY <2>1, <3>1, <4>1, <4>2 DEF TransferInv
    <3>2. CASE cpc # "recv_data"
      <4>1. /\ cpc \in {"recv_size", "recv_reply", "recv_listing"} /\ cpc' = "close"
            /\ outcome' \in {"failed", "listed"} /\ local' = local
        BY <2>11, <3>2 DEF RecvEnds, AfterEnd, RecvPcs
      <4> QED
        BY <2>1, <4>1 DEF TransferInv
    <3> QED
      BY <3>1, <3>2
  <2>12. CASE CloseClient
    BY <2>1, <2>12 DEF TransferInv, CloseClient, failVars, down
  <2>13. CASE ConnectFails \/ SourceEnds \/ OpenLocalFails
    BY <2>1, <2>13 DEF TransferInv, ConnectFails, SourceEnds, OpenLocalFails
  <2>14. CASE WriteLocalFails
    BY <2>1, <2>14 DEF TransferInv, WriteLocalFails, Fail, down
  <2>15. CASE ClientKilled
    BY <2>1, <2>3, <2>15 DEF TransferInv, ClientKilled
  <2> QED
    BY <1>1, <2>4, <2>5, <2>6, <2>7, <2>8, <2>9, <2>10, <2>11, <2>12, <2>13, <2>14, <2>15
    DEF ClientMoves, ClientStep, ClientFails
<1>2. ASSUME ServerMoves PROVE LocalInv'
  <2>1. UNCHANGED <<cpc, outcome, local, source, downGot>>
        /\ (trouble' = trouble \/ trouble' = TRUE) /\ ignored \subseteq ignored'
    BY <1>2, ServerFrame DEF clientVars, before
  <2>2. "fclose_local" \in ignored' <=> "fclose_local" \in ignored
    BY <1>2, ServerFrame
  <2>3. opened # Absent => opened' = opened
    BY <1>2, ServerFrame DEF Lookup, TransferInv, AnswerInv, Unanswered, ReplyPcs
  <2>4. opened # Absent => \A n : Downloaded(n)' = Downloaded(n)
    BY <2>3 DEF Downloaded
  <2> QED
    BY <2>1, <2>2, <2>3, <2>4 DEF TransferInv
<1>3. ASSUME UNCHANGED vars PROVE LocalInv'
  BY <1>3 DEF TransferInv, vars, before, clientVars, serverVars, down, failVars, Downloaded
<1> QED
  BY <1>1, <1>2, <1>3, Steps

\* Every step keeps UploadInv.
LEMMA UploadStep == TransferInv /\ [Next]_vars => UploadInv'
<1> SUFFICES ASSUME TransferInv, [Next]_vars, Uploading' PROVE UploadInv'
  BY DEF UploadInv
<1> DEFINE Done == {"close", "done"}
           Before == {"none", "pending", "op", "string", "size", "dirs", "exists"}
<1>1. ASSUME ClientMoves PROVE UploadInv'
  <2>1. /\ UNCHANGED <<cmd, source, cur0, kept0, verdict, mark, cur, kept, upGot>>
        /\ spc' = spc \/ Connect
    BY <1>1, ClientFrame DEF before, store
  <2>2. \A call \in {"rename", "fclose", "remove"} : call \in ignored' <=> call \in ignored
    BY <1>1, ClientFrame
  <2>3. PutAside' = PutAside /\ KeptOnes' = KeptOnes
        /\ (\A n : Upload(n)' = Upload(n)) /\ (Aside(Upload(0))' <=> Aside(Upload(0)))
    BY <2>1, <2>2 DEF PutAside, KeptOnes, Aside, Upload
  <2>4. UploadInv /\ Uploading
    BY <2>1 DEF TransferInv, Uploading, Op
  <2>5. CASE spc' = spc
    BY <2>1, <2>2, <2>3, <2>4, <2>5 DEF UploadInv
  <2>6. CASE Connect
    <3>1. spc = "none" /\ spc' = "pending"
      BY <2>6 DEF Connect, TransferInv, ControlInv
    <3> QED
      BY <2>1, <2>2, <2>4, <3>1 DEF UploadInv
  <2> QED
    BY <2>1, <2>5, <2>6
<1>2. ASSUME ServerMoves PROVE UploadInv'
  <2>1. UNCHANGED <<cmd, source, cur0, kept0>> /\ Uploading /\ PutAside' = PutAside
    BY <1>2, ServerFrame DEF before, Uploading, Op, PutAside
  <2>2. UploadInv
    BY DEF TransferInv
  <2>3. CASE \/ AcceptClient \/ ReceiveMore \/ ReceiveOperation \/ ReceiveOperationCut
             \/ ReceiveName \/ ReceiveNameCut \/ ReceiveSize \/ MakeDirectories
    <3>1. /\ spc \in Before /\ spc # "exists" /\ UNCHANGED <<cur, kept, ignored>>
          /\ \/ spc' \in Before
             \/ spc' = "close" /\ verdict' = "dropped"
      <4>1. CASE AcceptClient \/ ReceiveMore \/ ReceiveOperation \/ ReceiveOperationCut
        BY <2>1, <4>1
        DEF AcceptClient, ReceiveMore, ReceiveOperation, ReceiveOperationCut, Receive,
            NameField, FieldPcs, Uploading, store, failVars, Fail, TransferInv, ControlInv
      <4>2. CASE ReceiveName \/ ReceiveNameCut
        <5>1. PICK ok \in BOOLEAN : Validate(ok)
          <6>1. cmd.valid \in BOOLEAN
            BY TransferAssumption DEF TransferInv, TypeOK
          <6> QED
            BY <4>2, <6>1, Zenon DEF ReceiveName, ReceiveNameCut
        <5>2. spc' = "size" \/ (spc' = "close" /\ verdict' = "dropped")
          BY <2>1, <5>1 DEF Validate, AfterName, Uploading
        <5> QED
          BY <2>1, <4>2, <5>2
          DEF ReceiveName, ReceiveNameCut, Receive, NameField, store, failVars, Fail
      <4>3. CASE ReceiveSize \/ MakeDirectories
        BY <4>3 DEF ReceiveSize, MakeDirectories, Receive, store, failVars, Fail
      <4> QED
        BY <2>3, <4>1, <4>2, <4>3
    <3> QED
      BY <2>1, <2>2, <3>1 DEF UploadInv
  <2>4. CASE ReceiveFails
    <3>1. /\ UNCHANGED <<cur, kept, ignored>> /\ spc \in FieldPcs \cup {"data"}
          /\ IF spc = "data" THEN spc' = "remove" /\ verdict' = "failed"
             ELSE spc' = "close" /\ verdict' = "dropped"
      BY <2>4 DEF ReceiveFails, AfterFailure, store, failVars, Fail
    <3>2. KeptOnes' = KeptOnes
      BY <2>1, <3>1 DEF KeptOnes
    <3>3. spc \in FieldPcs => spc \in Before
      BY <2>1 DEF FieldPcs, TransferInv, ControlInv
    <3> QED
      BY <2>1, <2>2, <3>1, <3>2, <3>3 DEF UploadInv, FieldPcs
  <2>5. CASE Backup \/ BackupFails
    <3>1. /\ spc = "exists" /\ spc' = "create" /\ source # Absent
          /\ cur = cur0 /\ kept = kept0 /\ "rename" \notin ignored
      BY <2>1, <2>2, <2>5 DEF Backup, BackupFails, UploadInv, TransferInv, LayoutInv
    <3>2. kept' = KeptOnes' /\ cur' = IF "rename" \in ignored' THEN cur0 ELSE Absent
      BY <2>1, <2>5, <3>1
      DEF Backup, BackupFails, KeptOnes, PutAside, FailAt, failVars, store
    <3> QED
      BY <2>1, <3>1, <3>2 DEF UploadInv
  <2>6. CASE Create \/ CreateFails
    <3>1. /\ mark = Header /\ upGot = mark /\ source # Absent /\ size = source.len
          /\ source = [of |-> "mine", len |-> source.len]
      BY <2>6 DEF Create, CreateFails, TransferInv, LayoutInv
    <3>2. size \in Nat
      BY <3>1 DEF TransferInv, TypeOK, FilesOK, Files
    <3>3. UNCHANGED <<kept, ignored, mark, upGot>>
      BY <2>6 DEF Create, CreateFails, failVars, Fail, up
    <3>4. Upload(0)' = Upload(0) /\ Upload(upGot - mark)' = Upload(0) /\ KeptOnes' = KeptOnes
      BY <2>1, <3>1, <3>3, Layout DEF Upload, KeptOnes
    <3>5. size = 0 => Upload(0) = source
      BY <3>1 DEF Upload
    <3>6. /\ kept = KeptOnes
          /\ cur = IF "rename" \in ignored THEN cur0 ELSE Absent
      BY <2>1, <2>2, <2>6 DEF Create, CreateFails, UploadInv
    <3>7. CASE Create
      <4>1. cur' = Upload(0) /\ spc' = IF size > 0 THEN "data" ELSE "saved"
        BY <3>7 DEF Create
      <4> QED
        BY <2>1, <3>1, <3>2, <3>3, <3>4, <3>5, <3>6, <4>1 DEF UploadInv
    <3>8. CASE CreateFails
      <4>1. cur' \in {cur, Upload(0)} /\ spc' = "close" /\ verdict' = "refused"
        BY <3>8 DEF CreateFails
      <4>2. Aside(Upload(0))'
        BY <2>1, <3>3, <3>4, <3>6, <4>1 DEF Aside, KeptOnes
      <4> QED
        BY <2>1, <3>1, <4>1, <4>2 DEF UploadInv
    <3> QED
      BY <2>6, <3>7, <3>8
  <2>7. CASE ReceiveData
    <3>1. PICK n \in upGot + 1 .. upSent :
            /\ upGot' = n /\ cur' = Upload(n - mark)
            /\ spc' = IF n - mark = size THEN "saved" ELSE spc
      BY <2>7 DEF ReceiveData, LastChunk
    <3>2. /\ mark = Header /\ source # Absent /\ size = source.len
          /\ source = [of |-> "mine", len |-> source.len] /\ spc = "data"
      BY <2>7 DEF ReceiveData, TransferInv, LayoutInv
    <3>3. UNCHANGED <<kept, ignored, mark>>
      BY <2>7 DEF ReceiveData, failVars
    <3>4. Upload(n - mark)' = Upload(n - mark) /\ KeptOnes' = KeptOnes
      BY <2>1, <3>3 DEF Upload, KeptOnes
    <3>5. n - mark = size => Upload(n - mark) = source
      BY <3>2 DEF Upload
    <3>6. kept = KeptOnes
      BY <2>1, <2>2, <3>2 DEF UploadInv
    <3>7. Upload(upGot - mark)' = Upload(n - mark)
      BY <3>1, <3>3, <3>4 DEF Upload
    <3> QED
      BY <2>1, <3>1, <3>2, <3>3, <3>4, <3>5, <3>6, <3>7 DEF UploadInv
  <2>8. CASE Saved \/ SavedInPart \/ RemovePartial \/ RemovePartialFails
    <3>1. /\ spc \in {"saved", "remove"} /\ spc' = "close" /\ kept' = kept /\ source # Absent
          /\ kept = KeptOnes
      BY <2>1, <2>2, <2>8
      DEF Saved, SavedInPart, RemovePartial, RemovePartialFails, store, UploadInv
    <3>2. "rename" \in ignored' <=> "rename" \in ignored
      BY <2>8
      DEF Saved, SavedInPart, RemovePartial, RemovePartialFails, FailAt, failVars
    <3>3. KeptOnes' = KeptOnes
      BY <2>1, <3>2 DEF KeptOnes
    <3>4. \/ verdict' = "saved" /\ ("fclose" \notin ignored' => cur' = source)
          \/ verdict' = "failed" /\ ("remove" \notin ignored' => cur' = Absent)
      BY <2>1, <2>2, <2>8
      DEF Saved, SavedInPart, RemovePartial, RemovePartialFails, FailAt, failVars, store,
          UploadInv
    <3> QED
      BY <2>1, <3>1, <3>3, <3>4 DEF UploadInv
  <2>9. CASE \/ Lookup \/ LookupFails \/ Delete \/ DeleteInPart \/ List \/ ListInPart
             \/ SendReply \/ SendReplyFails \/ ReadEnds
    <3>1. spc \in {"lookup", "delete", "list"} \cup ReplyPcs
      BY <2>9 DEF Lookup, LookupFails, Delete, DeleteInPart, List, ListInPart, SendReply,
                  SendReplyFails, ReadEnds, ReplyPcs
    <3> QED
      BY <2>1, <3>1 DEF TransferInv, ControlInv, ReplyPcs, Downloading, Uploading
  <2>10. CASE CloseServer \/ ServerKilled
    <3>1. /\ spc' \in {"done", "killed"} /\ (spc' = "done" => spc = "close")
          /\ UNCHANGED <<cur, kept, ignored, verdict, mark>>
      BY <2>10 DEF CloseServer, ServerKilled, store, failVars, FailAt, Fail
    <3>2. KeptOnes' = KeptOnes /\ (Aside(Upload(0))' <=> Aside(Upload(0)))
      BY <2>1, <3>1 DEF KeptOnes, Aside, Upload
    <3> QED
      BY <2>1, <2>2, <3>1, <3>2 DEF UploadInv
  <2> QED
    BY <1>2, <2>3, <2>4, <2>5, <2>6, <2>7, <2>8, <2>9, <2>10
    DEF ServerMoves, ServerStep, ServerFails
<1>3. ASSUME UNCHANGED vars PROVE UploadInv'
  BY <1>3
  DEF TransferInv, UploadInv, Uploading, Op, PutAside, KeptOnes, Aside, Upload, vars,
      before, serverVars, store, up, failVars
<1> QED
  BY <1>1, <1>2, <1>3, Steps

-----------------------------------------------------------------------------

\* The invariant is inductive.
LEMMA NextTransferInv == TransferInv /\ [Next]_vars => TransferInv'
<1> SUFFICES ASSUME TransferInv, [Next]_vars PROVE TransferInv'
  OBVIOUS
<1>1. TypeOK'
  <2>1. cmd' \in Commands
    BY Steps, ClientFrame, ServerFrame DEF TransferInv, TypeOK, vars, before
  <2> QED
    BY <2>1, FilesStep, PcsStep, StreamsStep, FlagsStep DEF TypeOK
<1> QED
  BY <1>1, ControlStep, LayoutStep, AnswerStep, EndsStep, LocalStep, UploadStep
  DEF TransferInv

\* The invariant the theorems rest on.
LEMMA TransferInvariant == Spec => []TransferInv
  BY InitTransferInv, NextTransferInv, PTL DEF Spec

\* Every value stays what it is meant to be, neither side receives more than was sent,
\* and nobody reads on when a file is complete.
THEOREM TransferTypeCorrect == Spec => []TypeOK
  BY TransferInvariant, PTL DEF TransferInv

\* A download reported as received is all of the file, however the stream arrives.
THEOREM DownloadsAreIntact == Spec => []DownloadIntact
<1>1. TransferInv => DownloadIntact
  BY DEF TransferInv, LocalInv, AnswerInv, DownloadIntact
<1> QED
  BY <1>1, TransferInvariant, PTL

\* A client that is not killed leaves no part of a file.
THEOREM LocalFileNeverPartial == Spec => []LocalNeverPartial
<1>1. TransferInv => LocalNeverPartial
  BY DEF TransferInv, LocalInv, Heeded, LocalNeverPartial
<1> QED
  BY <1>1, TransferInvariant, PTL

\* The thread of a WRITE goes on with the path and the size it was sent.
THEOREM UploadsAreAsSent == Spec => []UploadAsSent
<1>1. TransferInv => UploadAsSent
  BY DEF TransferInv, LayoutInv, UploadAsSent
<1> QED
  BY <1>1, TransferInvariant, PTL

\* An upload replaces the file as a whole, or removes what it has stored, and the
\* previous file is a version then.
THEOREM UploadsAreAllOrNothing == Spec => []UploadAllOrNothing
<1>1. TransferInv => UploadAllOrNothing
  BY DEF TransferInv, UploadInv, KeptOnes, UploadAllOrNothing
<1> QED
  BY <1>1, TransferInvariant, PTL

\* A WRITE of a file there is not leaves storage alone.
THEOREM MissingSourcesAreHarmless == Spec => []MissingSourceHarmless
<1>1. TransferInv => MissingSourceHarmless
  BY DEF TransferInv, UploadInv, MissingSourceHarmless
<1> QED
  BY <1>1, TransferInvariant, PTL
=============================================================================
