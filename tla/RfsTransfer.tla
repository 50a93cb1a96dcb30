---------------------------- MODULE RfsTransfer ----------------------------
(***************************************************************************)
(* One command of the client program, from end to end: the client, the     *)
(* byte stream in both directions, and the thread that serves it.          *)
(*                                                                         *)
(* What a side sends is determined by the command, so a stream is two      *)
(* positions: how much has been sent and how much received.  A field (an   *)
(* operation or a name, with the length before it, or a file size) is      *)
(* Pieces[f] units long and is followed by the chunks of a file, one unit  *)
(* each.  send and recv move any number of units that fit, from one on.    *)
(***************************************************************************)
EXTENDS Integers, Sequences

CONSTANTS
  Commands,  \* the commands a user may give
  Pieces,    \* [Fields -> Nat]: the units of a field
  Window,    \* the units that fit into the socket buffers of one direction
  Sizes,     \* sizes of the files there are, in chunks
  Absent     \* "no file"

Ops     == {"WRITE", "GET", "GETVERSION", "RM", "LS", "STOP"}
Fields  == {"op", "string", "name", "size"}

\* The contents there are: the local file, the current file of the server and its
\* version as the command begins, another file of the server, and bytes that were not
\* meant as file data.
Origins == {"mine", "theirs", "old", "other", "garbled"}
Files   == [of : Origins, len : Nat]

\* Calls whose failure leaves something behind and is only printed, or not even that.
Unheeded == {"fclose_local", "remove_local", "rename", "fclose", "remove"}

ASSUME TransferAssumption ==
  /\ Commands \subseteq [op : Ops, num : Int, valid : BOOLEAN]
  /\ Pieces \in [Fields -> Nat \ {0}]
  /\ Window \in Nat \ {0}
  /\ Sizes \subseteq Nat
  /\ Absent \notin Files

VARIABLES
  cmd,       \* the command
  cpc,       \* the next call of the client
  outcome,   \* what the client reports
  local,     \* the local file
  source,    \* the local file as it was before
  spc,       \* the next call of the server thread
  verdict,   \* how the handler ends
  name,      \* filename, as the server thread decoded it
  size,      \* file_size of the server thread; the units of a textual reply
  opened,    \* the file a download reads
  mark,      \* position in the stream where the thread began its current field
  cur, kept, \* the file in storage, and its versions, oldest first
  cur0, kept0, \* the same before the command
  upSent, upGot,      \* the stream to the server
  downSent, downGot,  \* the stream to the client
  cOpen, sOpen,       \* the client's and the server's end of the connection
  trouble,   \* a call failed, or did a part of its work, that need not have
  ignored    \* the calls of Unheeded that failed

store      == <<cur, kept>>
before     == <<cmd, source, cur0, kept0>>
up         == <<upSent, upGot>>
down       == <<downSent, downGot>>
clientVars == <<cpc, outcome, local, cOpen>>
serverVars == <<spc, verdict, name, size, opened, mark, sOpen>>
failVars   == <<trouble, ignored>>
vars       == <<before, clientVars, serverVars, store, up, down, failVars>>

\* A failure that shows, and one of a call of Unheeded.
Fail         == trouble' = TRUE /\ UNCHANGED ignored
FailAt(call) == trouble' = TRUE /\ ignored' = ignored \cup {call}

Op        == cmd.op
Uploading == Op = "WRITE"

SendPcs   == {"send_op", "send_name", "send_size", "send_data"}
RecvPcs   == {"recv_size", "recv_data", "recv_reply", "recv_listing"}
ClientEnd == {"done", "killed"}
ClientPcs == SendPcs \cup RecvPcs \cup ClientEnd
             \cup {"connect", "open_source", "open_local", "fclose_local", "remove_local",
                     "close"}

FieldPcs  == {"op", "string", "name", "size"}
ReplyPcs  == {"send_size", "send_data", "reply"}
ServerEnd == {"none", "done", "killed"}
ServerPcs == FieldPcs \cup ReplyPcs \cup ServerEnd
             \cup {"pending", "dirs", "exists", "create", "data", "saved", "remove",
                   "lookup", "delete", "list", "close"}

-----------------------------------------------------------------------------
(* The layout of the stream to the server *)

\* send_string of the name; recv_string reads it for WRITE.  The other operations have
\* it, as handle_client has the operation, by two plain recv calls, of the length and
\* of the bytes.
NameField == IF Uploading THEN "string" ELSE "name"

Start(f) == CASE f = "op"               -> 0
              [] f \in {"name", "string"} -> Pieces["op"]
              [] f = "size"             -> Pieces["op"] + Pieces["string"]

End(f) == Start(f) + Pieces[f]

\* Where the chunks of an upload begin.
Header == End("size")

\* Mutant: recv in place of recv_all everywhere.
FieldDone_Plain(f, n) == n >= 1

\* With n units of it, the thread may take field f for received: recv_all waits for
\* all of it, a plain recv for any part.
FieldDone(f, n) == n = Pieces[f] \/ (f \in {"op", "name"} /\ n >= 1)

\* The thread, having received n units, read in field f what the client sent as f.
Aligned(f, n) == mark = Start(f) /\ n = End(f)

-----------------------------------------------------------------------------
(* The client: send_operation, send_string, send_file *)

\* connect_to_server.
Connect ==
  /\ cpc = "connect"
  /\ cpc' = "send_op"
  /\ spc' = "pending"
  /\ cOpen' = TRUE
  /\ sOpen' = TRUE
  /\ UNCHANGED <<before, outcome, local, verdict, name, size, opened, mark, store,
                 up, down, failVars>>

ConnectFails ==
  /\ cpc = "connect"
  /\ cpc' = "done"
  /\ outcome' = "failed"
  /\ Fail
  /\ UNCHANGED <<before, local, cOpen, serverVars, store, up, down>>

\* The position send_all has to reach, and what comes after it.
SendTo ==
  CASE cpc = "send_op"   -> End("op")
    [] cpc = "send_name" -> End(NameField)
    [] cpc = "send_size" -> Header
    [] cpc = "send_data" -> Header + source.len

AfterSend ==
  CASE cpc = "send_op"   -> IF Op = "STOP" THEN "close" ELSE "send_name"
    [] cpc = "send_name" -> CASE Op = "WRITE" -> "open_source"
                              [] Op = "RM"    -> "recv_reply"
                              [] Op = "LS"    -> "recv_listing"
                              [] OTHER        -> "recv_size"
    [] cpc = "send_size" -> IF source.len > 0 THEN "send_data" ELSE "close"
    [] cpc = "send_data" -> "close"

\* One turn of send_all.  The kernel still takes what is sent to a closed connection.
Send ==
  /\ cpc \in SendPcs
  /\ \E n \in upSent + 1 .. SendTo :
       /\ sOpen => n <= upGot + Window
       /\ upSent' = n
       /\ cpc' = IF n = SendTo THEN AfterSend ELSE cpc
       /\ outcome' = IF n = SendTo /\ AfterSend = "close" THEN "sent" ELSE outcome
  /\ UNCHANGED <<before, local, cOpen, serverVars, store, upGot, down, failVars>>

\* send to a connection the server has closed: it fails, or SIGPIPE ends the client.
SendFails ==
  /\ cpc \in SendPcs
  /\ ~sOpen
  /\ outcome' = "failed"
  /\ \/ cpc' = "close" /\ UNCHANGED cOpen
     \/ cpc' = "killed" /\ cOpen' = FALSE
  /\ UNCHANGED <<before, local, serverVars, store, up, down, failVars>>

\* send_file opens the local file: only now, with operation and name on their way.
OpenSource ==
  /\ cpc = "open_source"
  /\ IF source = Absent THEN cpc' = "close" /\ outcome' = "failed"
                        ELSE cpc' = "send_size" /\ UNCHANGED outcome
  /\ UNCHANGED <<before, local, cOpen, serverVars, store, up, down, failVars>>

\* send_file_data: fread fails, or the file has become shorter; the client reports
\* what it sent all the same if it met the end of the file.
SourceEnds ==
  /\ cpc = "send_data"
  /\ cpc' = "close"
  /\ \E o \in {"sent", "failed"} : outcome' = o
  /\ Fail
  /\ UNCHANGED <<before, local, cOpen, serverVars, store, up, down>>

-----------------------------------------------------------------------------
(* The client: receive_file, receive_response, and the loop of list_directory *)

\* One turn of recv_all for the file size; -1 says that there is no file.
RecvFileSize ==
  /\ cpc = "recv_size"
  /\ \E n \in downGot + 1 .. downSent :
       /\ n <= Pieces["size"]
       /\ downGot' = n
       /\ IF n < Pieces["size"] THEN UNCHANGED <<cpc, outcome>>
          ELSE IF size < 0 THEN cpc' = "close" /\ outcome' = "failed"
          ELSE cpc' = "open_local" /\ UNCHANGED outcome
  /\ UNCHANGED <<before, local, cOpen, serverVars, store, up, downSent, failVars>>

\* The local file with the first n chunks of the download.
Downloaded(n) == [opened EXCEPT !.len = n]

\* fopen(filename, "wb"): the local file is truncated.
OpenLocal ==
  /\ cpc = "open_local"
  /\ local' = Downloaded(0)
  /\ cpc' = IF size = 0 THEN "fclose_local" ELSE "recv_data"
  /\ UNCHANGED <<before, outcome, cOpen, serverVars, store, up, down, failVars>>

OpenLocalFails ==
  /\ cpc = "open_local"
  /\ cpc' = "close"
  /\ outcome' = "failed"
  /\ Fail
  /\ UNCHANGED <<before, local, cOpen, serverVars, store, up, down>>

\* One turn of recv_file_data.
RecvLocal ==
  /\ cpc = "recv_data"
  /\ \E n \in downGot + 1 .. downSent :
       /\ n <= Pieces["size"] + size
       /\ downGot' = n
       /\ local' = Downloaded(n - Pieces["size"])
       /\ cpc' = IF n = Pieces["size"] + size THEN "fclose_local" ELSE cpc
  /\ UNCHANGED <<before, outcome, cOpen, serverVars, store, up, downSent, failVars>>

\* fclose, and all bytes have been received: "Saved to".
CloseLocal ==
  /\ cpc = "fclose_local"
  /\ cpc' = "close"
  /\ outcome' = "received"
  /\ UNCHANGED <<before, local, cOpen, serverVars, store, up, down, failVars>>

\* The flush of fclose fails, its result is not looked at, and a part of the file is
\* reported as received.
CloseLocalFails ==
  /\ cpc = "fclose_local"
  /\ cpc' = "close"
  /\ outcome' = "received"
  /\ \E n \in 0 .. size - 1 : local' = Downloaded(n)
  /\ FailAt("fclose_local")
  /\ UNCHANGED <<before, cOpen, serverVars, store, up, down>>

\* fwrite fails.
WriteLocalFails ==
  /\ cpc = "recv_data"
  /\ cpc' = "remove_local"
  /\ Fail
  /\ UNCHANGED <<before, outcome, local, cOpen, serverVars, store, up, down>>

\* Mutant: the partial file stays.
RemoveLocal_Kept ==
  /\ cpc = "remove_local"
  /\ cpc' = "close"
  /\ outcome' = "failed"
  /\ UNCHANGED <<before, local, cOpen, serverVars, store, up, down, failVars>>

\* bytes_received != file_size: "Clean up partial file".
RemoveLocal ==
  /\ cpc = "remove_local"
  /\ cpc' = "close"
  /\ outcome' = "failed"
  /\ local' = Absent
  /\ UNCHANGED <<before, cOpen, serverVars, store, up, down, failVars>>

\* remove fails, which goes unnoticed.
RemoveLocalFails ==
  /\ cpc = "remove_local"
  /\ cpc' = "close"
  /\ outcome' = "failed"
  /\ FailAt("remove_local")
  /\ UNCHANGED <<before, local, cOpen, serverVars, store, up, down>>

\* receive_response: a single recv, whatever it returns.
RecvResponse ==
  /\ cpc = "recv_reply"
  /\ \E n \in downGot + 1 .. downSent : downGot' = n
  /\ cpc' = "close"
  /\ outcome' = "replied"
  /\ UNCHANGED <<before, local, cOpen, serverVars, store, up, downSent, failVars>>

\* list_directory prints what arrives until the server closes.
RecvListing ==
  /\ cpc = "recv_listing"
  /\ \E n \in downGot + 1 .. downSent : downGot' = n
  /\ UNCHANGED <<before, clientVars, serverVars, store, up, downSent, failVars>>

\* Mutant: an incomplete download counts as received.
AfterEnd_Accepted == IF cpc = "recv_data" THEN "received" ELSE "failed"

\* What the client makes of the end of the stream.  A listing cut short looks like
\* one that is complete.
AfterEnd == IF cpc = "recv_listing" THEN "listed"
            ELSE IF cpc = "recv_data" THEN "none" ELSE "failed"

\* recv returns 0 or fails: the server has closed and nothing is left, or it closed with
\* bytes unread, which resets the connection.
RecvEnds ==
  /\ cpc \in RecvPcs
  /\ ~sOpen /\ (downGot = downSent \/ upGot < upSent)
  /\ outcome' = AfterEnd
  /\ cpc' = IF AfterEnd = "none" THEN "remove_local" ELSE "close"
  /\ UNCHANGED <<before, local, cOpen, serverVars, store, up, down, failVars>>

CloseClient ==
  /\ cpc = "close"
  /\ cpc' = "done"
  /\ cOpen' = FALSE
  /\ UNCHANGED <<before, outcome, local, serverVars, store, up, down, failVars>>

ClientStep ==
  \/ Connect \/ Send \/ SendFails \/ OpenSource
  \/ RecvFileSize \/ OpenLocal \/ RecvLocal \/ CloseLocal \/ RemoveLocal
  \/ RecvResponse \/ RecvListing \/ RecvEnds \/ CloseClient

\* Calls of the client that may fail.
ClientFails ==
  \/ ConnectFails \/ SourceEnds \/ OpenLocalFails \/ WriteLocalFails
  \/ CloseLocalFails \/ RemoveLocalFails

-----------------------------------------------------------------------------
(* The server thread: handle_client, and the requests as the handlers read them *)

\* main accepts the connection.
AcceptClient ==
  /\ spc = "pending"
  /\ spc' = "op"
  /\ UNCHANGED <<before, clientVars, verdict, name, size, opened, mark, sOpen, store,
                 up, down, failVars>>

\* recv delivers units of field f; if done, the thread takes it for received.
Receive(f, done) ==
  /\ spc = f
  /\ \E n \in upGot + 1 .. upSent :
       /\ n <= mark + Pieces[f]
       /\ upGot' = n
       /\ IF done THEN FieldDone(f, n - mark) ELSE n - mark < Pieces[f]
       /\ mark' = IF done THEN n ELSE mark

\* What the thread read is what was sent; a statement about the step.
Correctly(f) == Aligned(f, upGot')

\* Not all of a field yet, and another recv follows.
ReceiveMore ==
  /\ \E f \in FieldPcs : Receive(f, FALSE)
  /\ UNCHANGED <<before, clientVars, spc, verdict, name, size, opened, sOpen, store,
                 upSent, down, failVars>>

\* The operation arrives, and is dispatched.
ReceiveOperation ==
  /\ Receive("op", TRUE)
  /\ Correctly("op")
  /\ spc' = IF Op = "STOP" THEN "close" ELSE NameField
  /\ verdict' = IF Op = "STOP" THEN "served" ELSE verdict
  /\ UNCHANGED <<before, clientVars, name, size, opened, sOpen, store, upSent, down,
                 failVars>>

\* A part of it arrives: it is not understood, or a GETVERSION is taken for a GET.
ReceiveOperationCut ==
  /\ Receive("op", TRUE)
  /\ ~Correctly("op")
  /\ \/ spc' = "close" /\ verdict' = "dropped"
     \/ Op = "GETVERSION" /\ spc' = NameField /\ UNCHANGED verdict
  /\ Fail
  /\ UNCHANGED <<before, clientVars, name, size, opened, sOpen, store, upSent, down>>

\* validate_path: a path it rejects is answered with -1 or a line of text, but for WRITE.
AfterName(ok) ==
  IF ok
  THEN CASE Op = "WRITE" -> "size"
         [] Op = "RM"    -> "delete"
         [] Op = "LS"    -> "list"
         [] OTHER        -> "lookup"
  ELSE CASE Op = "WRITE"         -> "close"
         [] Op \in {"RM", "LS"}  -> "reply"
         [] OTHER                -> "send_size"

\* What the thread does once it has a name.
Validate(ok) ==
  /\ spc' = AfterName(ok)
  /\ size' = IF ok \/ Uploading THEN size ELSE IF Op \in {"RM", "LS"} THEN 1 ELSE -1
  /\ verdict' = IF ok THEN verdict ELSE IF Uploading THEN "dropped" ELSE "served"

\* The name arrives.
ReceiveName ==
  /\ Receive(NameField, TRUE)
  /\ Correctly(NameField)
  /\ name' = "sent"
  /\ Validate(cmd.valid)
  /\ UNCHANGED <<before, clientVars, opened, sOpen, store, upSent, down, failVars>>

\* Other bytes are taken for the name: a part of it, as long as the length read says
\* or not, which may be a valid path or none.
ReceiveNameCut ==
  /\ Receive(NameField, TRUE)
  /\ ~Correctly(NameField)
  /\ name' = "garbled"
  /\ \E ok \in BOOLEAN : Validate(ok)
  /\ Fail
  /\ UNCHANGED <<before, clientVars, opened, sOpen, store, upSent, down>>

ReceiveSize ==
  /\ Receive("size", TRUE)
  /\ spc' = "dirs"
  /\ IF Correctly("size") THEN size' = source.len ELSE \E z \in Sizes : size' = z
  /\ UNCHANGED <<before, clientVars, verdict, name, opened, sOpen, store, upSent, down,
                 failVars>>

\* Mutant: the result of recv_all for the size is not looked at.
AfterFailure_SizeIgnored == IF spc \in {"data", "size"} THEN "remove" ELSE "close"

\* A failed recv ends the request, after the removal of what has been stored.
AfterFailure == IF spc = "data" THEN "remove" ELSE "close"

\* recv returns 0, the client having closed; or it fails, after the timeout or
\* because of a signal, or fwrite does.
ReceiveFails ==
  /\ spc \in FieldPcs \cup {"data"}
  /\ \/ ~cOpen /\ upGot = upSent /\ UNCHANGED failVars
     \/ Fail
  /\ spc' = AfterFailure
  /\ verdict' = IF AfterFailure = "close" THEN "dropped" ELSE "failed"
  /\ UNCHANGED <<before, clientVars, name, size, opened, mark, sOpen, store, up, down>>

-----------------------------------------------------------------------------
(* handle_write_request.  RfsStore has it in detail, among other requests. *)

\* create_directories_safe.
MakeDirectories ==
  /\ spc = "dirs"
  /\ \/ spc' = "exists" /\ UNCHANGED <<verdict, failVars>>
     \/ spc' = "close" /\ verdict' = "dropped" /\ Fail
  /\ UNCHANGED <<before, clientVars, name, size, opened, mark, sOpen, store, up, down>>

\* backup_file, under the version mutex.
Backup ==
  /\ spc = "exists"
  /\ spc' = "create"
  /\ cur' = Absent
  /\ kept' = IF cur = Absent THEN kept ELSE Append(kept, cur)
  /\ UNCHANGED <<before, clientVars, verdict, name, size, opened, mark, sOpen, up, down,
                 failVars>>

\* rename fails, and the handler goes on.
BackupFails ==
  /\ spc = "exists"
  /\ cur # Absent
  /\ spc' = "create"
  /\ FailAt("rename")
  /\ UNCHANGED <<before, clientVars, verdict, name, size, opened, mark, sOpen, store, up,
                 down>>

\* The first n chunks received after the header.
Upload(n) == [of |-> IF mark = Header THEN "mine" ELSE "garbled", len |-> n]

\* fopen(full_path, "wb"), which truncates what has not been put aside, and flock.
Create ==
  /\ spc = "create"
  /\ spc' = IF size > 0 THEN "data" ELSE "saved"
  /\ cur' = Upload(0)
  /\ UNCHANGED <<before, clientVars, verdict, name, size, opened, mark, sOpen, kept, up,
                 down, failVars>>

\* fopen fails, or flock after it, which leaves an empty file.
CreateFails ==
  /\ spc = "create"
  /\ spc' = "close"
  /\ cur' \in {cur, Upload(0)}
  /\ verdict' = "refused"
  /\ Fail
  /\ UNCHANGED <<before, clientVars, name, size, opened, mark, sOpen, kept, up, down>>

\* Mutant: total_received <= file_size.
LastChunk_OffByOne(n) == n = size + 1

\* total_received < file_size fails after n chunks.
LastChunk(n) == n = size

\* One turn of recv_file_data.
ReceiveData ==
  /\ spc = "data"
  /\ \E n \in upGot + 1 .. upSent :
       /\ n <= mark + size
       /\ upGot' = n
       /\ cur' = Upload(n - mark)
       /\ spc' = IF LastChunk(n - mark) THEN "saved" ELSE spc
  /\ UNCHANGED <<before, clientVars, verdict, name, size, opened, mark, sOpen, kept,
                 upSent, down, failVars>>

\* fclose, and no write_error: "File saved successfully".
Saved ==
  /\ spc = "saved"
  /\ spc' = "close"
  /\ verdict' = "saved"
  /\ UNCHANGED <<before, clientVars, name, size, opened, mark, sOpen, store, up, down,
                 failVars>>

\* The flush of fclose fails, its result is not looked at, and a part of the file is
\* kept and reported as saved.
SavedInPart ==
  /\ spc = "saved"
  /\ spc' = "close"
  /\ verdict' = "saved"
  /\ \E n \in 0 .. size - 1 : cur' = Upload(n)
  /\ FailAt("fclose")
  /\ UNCHANGED <<before, clientVars, name, size, opened, mark, sOpen, kept, up, down>>

\* write_error: remove(full_path).
RemovePartial ==
  /\ spc = "remove"
  /\ spc' = "close"
  /\ cur' = Absent
  /\ UNCHANGED <<before, clientVars, verdict, name, size, opened, mark, sOpen, kept, up,
                 down, failVars>>

\* remove fails, and what has been stored stays.
RemovePartialFails ==
  /\ spc = "remove"
  /\ spc' = "close"
  /\ FailAt("remove")
  /\ UNCHANGED <<before, clientVars, verdict, name, size, opened, mark, sOpen, store, up,
                 down>>

-----------------------------------------------------------------------------
(* The other handlers *)

\* The file a download asks for: the current one, or version num from the oldest.
Wanted ==
  IF Op = "GET" THEN cur
  ELSE IF Op = "GETVERSION" /\ cmd.num \in 1 .. Len(kept) THEN kept[cmd.num]
  ELSE Absent

\* What there may be under the name the thread has.
Found == IF name = "sent" THEN {Wanted}
         ELSE {[of |-> "other", len |-> z] : z \in Sizes} \cup {Absent}

\* resolve_version_path and fopen(filepath, "rb").
Lookup ==
  /\ spc = "lookup"
  /\ spc' = "send_size"
  /\ verdict' = "served"
  /\ opened' \in Found
  /\ size' = IF opened' = Absent THEN -1 ELSE opened'.len
  /\ UNCHANGED <<before, clientVars, name, mark, sOpen, store, up, down, failVars>>

\* opendir, fopen or flock fails, and the answer is that there is no such file.
LookupFails ==
  /\ spc = "lookup"
  /\ spc' = "send_size"
  /\ verdict' = "served"
  /\ size' = -1
  /\ Fail
  /\ UNCHANGED <<before, clientVars, name, opened, mark, sOpen, store, up, down>>

\* handle_rm_request: the file and its versions go, and one line is the reply.
Delete ==
  /\ spc = "delete"
  /\ name = "sent"
  /\ spc' = "reply"
  /\ verdict' = "served"
  /\ cur' = Absent
  /\ kept' = <<>>
  /\ size' = 1
  /\ UNCHANGED <<before, clientVars, name, opened, mark, sOpen, up, down, failVars>>

\* A remove or opendir fails, or the name is not the one sent: some of it stays.
DeleteInPart ==
  /\ spc = "delete"
  /\ spc' = "reply"
  /\ verdict' = "served"
  /\ cur' \in {Absent, cur}
  /\ kept' \in {<<>>, kept}
  /\ size' = 1
  /\ Fail
  /\ UNCHANGED <<before, clientVars, name, opened, mark, sOpen, up, down>>

\* handle_ls_request, of a file: itself, its versions, and a last line.
List ==
  /\ spc = "list"
  /\ name = "sent"
  /\ spc' = "reply"
  /\ verdict' = "served"
  /\ size' = IF cur = Absent THEN 1 ELSE Len(kept) + 2
  /\ UNCHANGED <<before, clientVars, name, opened, mark, sOpen, store, up, down, failVars>>

\* opendir fails, after the first line, or the name is not the one sent.
ListInPart ==
  /\ spc = "list"
  /\ spc' = "reply"
  /\ verdict' = "served"
  /\ size' \in IF name = "sent" THEN {1} ELSE 1 .. Len(kept) + 2
  /\ Fail
  /\ UNCHANGED <<before, clientVars, name, opened, mark, sOpen, store, up, down>>

ReplyEnd ==
  CASE spc = "send_size" -> Pieces["size"]
    [] spc = "send_data" -> Pieces["size"] + size
    [] spc = "reply"     -> size

\* One turn of send_all, or a send of the textual replies.
SendReply ==
  /\ spc \in ReplyPcs
  /\ \E n \in downSent + 1 .. ReplyEnd :
       /\ cOpen => n <= downGot + Window
       /\ downSent' = n
       /\ spc' = IF n < ReplyEnd THEN spc
                 ELSE IF spc = "send_size" /\ size > 0 THEN "send_data" ELSE "close"
  /\ UNCHANGED <<before, clientVars, verdict, name, size, opened, mark, sOpen, store, up,
                 downGot, failVars>>

\* send_file_data returns early: the file cannot be read, or has become shorter.
ReadEnds ==
  /\ spc = "send_data"
  /\ spc' = "close"
  /\ Fail
  /\ UNCHANGED <<before, clientVars, verdict, name, size, opened, mark, sOpen, store, up,
                 down>>

\* send to a client that is gone fails (or raises SIGPIPE, see ServerKilled).
SendReplyFails ==
  /\ spc \in ReplyPcs
  /\ ~cOpen
  /\ spc' = "close"
  /\ UNCHANGED <<before, clientVars, verdict, name, size, opened, mark, sOpen, store, up,
                 down, failVars>>

\* Mutant: only a request that was served is followed by close.
CloseServer_Served ==
  /\ spc = "close"
  /\ spc' = "done"
  /\ sOpen' = (verdict = "dropped")
  /\ UNCHANGED <<before, clientVars, verdict, name, size, opened, mark, store, up, down,
                 failVars>>

CloseServer ==
  /\ spc = "close"
  /\ spc' = "done"
  /\ sOpen' = FALSE
  /\ UNCHANGED <<before, clientVars, verdict, name, size, opened, mark, store, up, down,
                 failVars>>

ServerStep ==
  \/ AcceptClient \/ ReceiveMore \/ ReceiveOperation \/ ReceiveOperationCut
  \/ ReceiveName \/ ReceiveNameCut \/ ReceiveSize \/ ReceiveFails
  \/ MakeDirectories \/ Backup \/ Create \/ ReceiveData \/ Saved \/ RemovePartial
  \/ Lookup \/ Delete \/ DeleteInPart \/ List \/ ListInPart
  \/ SendReply \/ SendReplyFails \/ CloseServer

\* Calls of the server that may fail.
ServerFails ==
  \/ BackupFails \/ CreateFails \/ SavedInPart \/ RemovePartialFails
  \/ LookupFails \/ ReadEnds

-----------------------------------------------------------------------------

\* The user interrupts the client.
ClientKilled ==
  /\ cpc \notin ClientEnd \cup {"connect"}
  /\ cpc' = "killed"
  /\ cOpen' = FALSE
  /\ Fail
  /\ UNCHANGED <<before, outcome, local, serverVars, store, up, down>>

\* The server process ends: by SIGPIPE, in a send of this thread or another, or as
\* main returns.
ServerKilled ==
  /\ spc \notin ServerEnd
  /\ spc' = "killed"
  /\ sOpen' = FALSE
  /\ Fail
  /\ UNCHANGED <<before, clientVars, verdict, name, size, opened, mark, store, up, down>>

Ended == cpc \in ClientEnd /\ spc \in ServerEnd

Init ==
  /\ cmd \in Commands
  /\ source \in {[of |-> "mine", len |-> z] : z \in Sizes} \cup {Absent}
  /\ cur0 \in {[of |-> "theirs", len |-> z] : z \in Sizes} \cup {Absent}
  /\ kept0 \in {<<[of |-> "old", len |-> z]>> : z \in Sizes} \cup {<<>>}
  /\ local = source /\ cur = cur0 /\ kept = kept0
  /\ cpc = "connect" /\ spc = "none"
  /\ outcome = "none" /\ verdict = "none"
  /\ name = "none" /\ size = 0 /\ opened = Absent /\ mark = 0
  /\ upSent = 0 /\ upGot = 0 /\ downSent = 0 /\ downGot = 0
  /\ cOpen = FALSE /\ sOpen = FALSE
  /\ trouble = FALSE /\ ignored = {}

Next ==
  \/ ClientStep \/ ClientFails \/ ServerStep \/ ServerFails
  \/ ClientKilled \/ ServerKilled
  \/ Ended /\ UNCHANGED vars

Spec == Init /\ [][Next]_vars

\* Both programs are scheduled.  recv of the server returns after a second at the
\* latest; recv of the client, and send, may wait for ever.
FairSpec == Spec /\ WF_vars(ClientStep) /\ WF_vars(ServerStep)

-----------------------------------------------------------------------------

FilesOK ==
  /\ source \in Files \cup {Absent} /\ local \in Files \cup {Absent}
  /\ cur0 \in Files \cup {Absent} /\ kept0 \in Seq(Files)
  /\ cur \in Files \cup {Absent} /\ kept \in Seq(Files)
  /\ opened \in Files \cup {Absent}

PcsOK ==
  /\ cpc \in ClientPcs /\ spc \in ServerPcs
  /\ outcome \in {"none", "sent", "received", "replied", "listed", "failed"}
  /\ verdict \in {"none", "dropped", "refused", "failed", "saved", "served"}
  /\ name \in {"none", "sent", "garbled"}

StreamsOK ==
  /\ size \in Int
  /\ upSent \in Nat /\ upGot \in 0 .. upSent
  /\ downSent \in Nat /\ downGot \in 0 .. downSent
  /\ mark \in 0 .. upGot
  /\ spc = "data" => upGot < mark + size
  /\ cpc = "recv_data" => downGot < Pieces["size"] + size

FlagsOK ==
  /\ cOpen \in BOOLEAN /\ sOpen \in BOOLEAN /\ trouble \in BOOLEAN
  /\ ignored \subseteq Unheeded

TypeOK == cmd \in Commands /\ FilesOK /\ PcsOK /\ StreamsOK /\ FlagsOK

\* The file, a version or nothing: what a download is about.  A download that is
\* reported as received ("Saved to") is the whole of it, however the stream is cut into
\* pieces and wherever either side fails, but for two cases: plain recv may have given
\* the server another name than the one sent, and the client does not look at fclose.
DownloadIntact ==
  outcome = "received" /\ name = "sent" /\ "fclose_local" \notin ignored =>
    Wanted # Absent /\ local = Wanted

\* What a client that is not killed reports is what it leaves: the file, whole as the
\* server sent it, if it was received; the local file as it was if it was not, or, if
\* some call failed after the transfer had begun, none, for the previous copy is
\* truncated first and the partial one removed ("Clean up partial file").  Never a
\* part of a file, unless the client's own fclose or remove fails.
LocalNeverPartial ==
  cpc = "done" /\ ignored \cap {"fclose_local", "remove_local"} = {} =>
    IF outcome = "received" THEN opened # Absent /\ local = opened
    ELSE local = source \/ (local = Absent /\ opened # Absent /\ trouble)

\* The thread of a WRITE that goes on works with the path and the size the client sent,
\* and stands where the data begin, however the fields arrive.
UploadAsSent ==
  Uploading =>
    /\ name # "garbled"
    /\ spc \in {"dirs", "exists", "create", "data", "saved"} =>
         size = source.len /\ mark = Header

\* Storage with the current file put aside as a version.
PutAside == IF cur0 = Absent THEN kept0 ELSE Append(kept0, cur0)

\* The versions and the file a WRITE leaves when rename, the one call of backup_file,
\* did not fail, or did.
Aside(file) == IF "rename" \in ignored THEN kept = kept0 /\ cur \in {cur0, file}
               ELSE kept = PutAside /\ cur \in {Absent, file}

\* A WRITE that has ended left storage as it was, or replaced the file by all of the
\* client's, or failed and removed it; but for the first, the previous file is kept as
\* the newest version.  So much for the calls whose result is looked at; of the others,
\* a failed rename costs the previous file, a failed fclose a part of the new one, and
\* a failed remove leaves a part of it.  A failed fopen or flock leaves an empty file
\* at most.
UploadAllOrNothing ==
  spc = "done" /\ Uploading =>
    CASE verdict = "dropped" -> cur = cur0 /\ kept = kept0
      [] verdict = "refused" -> Aside(Upload(0))
      [] OTHER ->
           /\ kept = IF "rename" \in ignored THEN kept0 ELSE PutAside
           /\ verdict = "saved" /\ "fclose" \notin ignored => cur = source
           /\ verdict = "failed" /\ "remove" \notin ignored => cur = Absent
           /\ verdict \in {"saved", "failed"}

\* A WRITE of a local file that does not exist changes nothing on the server,
\* although operation and name reach it before the client notices.
MissingSourceHarmless ==
  Uploading /\ source = Absent => cur = cur0 /\ kept = kept0

-----------------------------------------------------------------------------

\* Every command comes to its end on both sides, whatever fails: no error path of
\* the server leaves the client waiting, and neither side waits for the other in a
\* send while the other waits in a send or recv of its own.
CommandEnds == <>Ended

\* There is something to send or to receive.
Feasible ==
  /\ cmd.valid
  /\ Uploading => source # Absent
  /\ Op \in {"GET", "GETVERSION"} => Wanted # Absent

\* Both sides did what the command asks for.
Accomplished ==
  /\ outcome = CASE Op \in {"WRITE", "STOP"}     -> "sent"
                 [] Op \in {"GET", "GETVERSION"} -> "received"
                 [] Op = "RM"                    -> "replied"
                 [] Op = "LS"                    -> "listed"
  /\ Uploading => verdict = "saved"
  /\ Op = "RM" => cur = Absent /\ kept = <<>>
  /\ Op = "LS" => downGot = size

\* A command that can be carried out is, unless some call fails for a reason of its
\* own.  For WRITE this is all there is in place of an acknowledgement: the client is
\* gone before the server has read what it sent.
CarriedOut == Feasible => <>(trouble \/ (Ended /\ Accomplished))
=============================================================================
