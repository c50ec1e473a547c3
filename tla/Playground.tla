----------------------------- MODULE Playground -----------------------------
(***************************************************************************)
(* The chat playground of the web frontend (features/playground): one page *)
(* that shows a conversation, the request that writes its last answer, the *)
(* buffer between the two, and the copy of the conversation that is kept   *)
(* in localStorage.                                                        *)
(*                                                                         *)
(* Four things run concurrently: the user's actions, the events of the     *)
(* request, the 50 ms timer that flushes buffered chunks and the 500 ms    *)
(* timer that saves.  A request does not know its message: everything it   *)
(* delivers is written to the LAST message of the conversation.            *)
(*                                                                         *)
(* A text is a sequence of letters; <<n, j>> is a letter of request n.  A  *)
(* provider sends either the next letter, which may be one that it sent    *)
(* before, or everything so far.  Texts the user or the page writes are    *)
(* one letter <<0, _>> each.                                               *)
(***************************************************************************)
EXTENDS Naturals, Sequences, SequencesExt, FiniteSets

CONSTANTS MaxSends,     \* requests ever sent
          MaxChunks,    \* chunks of one streamed answer
          MaxOpens,     \* times the page is opened
          MaxStored     \* MAX_STORED_MESSAGES

ASSUME PlaygroundAssumption ==
    MaxSends \in Nat /\ MaxChunks \in Nat \ {0} /\ MaxOpens \in Nat /\ MaxStored \in Nat \ {0, 1}

VARIABLES
    config,      \* what the stored configuration says of the requests
    page,        \* is the page mounted, and how often it was opened
    messages,    \* the conversation shown
    editing,     \* editingMessageKey, NoKey when no editor is open
    net,         \* the request state of useChatHandler and useStreamRequest
    buffer,      \* pendingStreamChunksRef and streamFlushTimerRef
    saving,      \* messagesSaveTimerRef is set
    stored,      \* localStorage
    detached,    \* conversations of pages left while a request was running
    sends,       \* requests sent so far
    delivered,   \* history: the text request n has delivered to its page
    overlapped,  \* history: a request was sent while one was generating
    swallowed,   \* history: requests of which a delta was taken for a repetition
    unkept       \* history: the last save or load failed, or a page that was
                 \* left has written to localStorage

playgroundVars == <<config, page, messages, editing, net, buffer, saving, stored,
          detached, sends, delivered, overlapped, swallowed, unkept>>

history == <<overlapped, swallowed, unkept>>

Keys == {"user", "assistant"} \X (0 .. MaxSends)
NoKey == <<"none", 0>>

ErrorText  == << <<0, 0>> >>
OtherText  == << <<0, 1>> >>   \* typed by the user, or read from localStorage

(***************************************************************************)
(* Messages and what a request does to them.                               *)
(***************************************************************************)
createUserMessage(n) ==
    [key |-> <<"user", n>>, status |-> "complete", text |-> OtherText]

createLoadingAssistantMessage(n) ==
    [key |-> <<"assistant", n>>, status |-> "loading", text |-> <<>>]

IsAssistant(m) == m.key[1] = "assistant"

isAssistantMessagePending(m) == m.status \in {"loading", "streaming"}

isAssistantMessageFinal(m) == m.status \in {"complete", "error"}

\* (mutant) What a provider repeats is added again.
mergeByConcatenation(current, next) == current \o next

\* startsWith: what comes next is taken for a repetition of what is there.
Repeats(current, next) == current # <<>> /\ IsPrefix(current, next)

\* This and getAppendableChunk let a provider repeat what it has already sent.
mergePendingStreamChunk(current, next) ==
    IF Repeats(current, next) THEN next ELSE current \o next

getAppendableChunk(current, chunk) ==
    IF Repeats(current, chunk)
    THEN SubSeq(chunk, Len(current) + 1, Len(chunk))
    ELSE chunk

applyStreamingChunk(m, chunk) ==
    IF m.status = "error" THEN m
    ELSE [m EXCEPT !.text = @ \o getAppendableChunk(@, chunk), !.status = "streaming"]

completeAssistantMessage(m) == [m EXCEPT !.status = "complete"]

\* `updated` is what the code's updater makes of the last message.
updateLastAssistantMessage(ms, updated) ==
    IF ms # <<>> /\ IsAssistant(Last(ms))
    THEN [ms EXCEPT ![Len(ms)] = updated]
    ELSE ms

updateAssistantMessageWithError(ms) ==
    updateLastAssistantMessage(ms,
        [Last(ms) EXCEPT !.status = "error", !.text = ErrorText])

applyChatCompletionResponse(ms, n) ==
    updateLastAssistantMessage(ms,
        [Last(ms) EXCEPT !.status = "complete", !.text = << <<n, 1>> >>])

CompleteUnlessFinal(ms) ==
    updateLastAssistantMessage(ms,
        IF isAssistantMessageFinal(Last(ms)) THEN Last(ms) ELSE completeAssistantMessage(Last(ms)))

\* The conversation once the buffered chunks have been applied to it.
Flushed(ms) ==
    IF buffer.pending = <<>> THEN ms
    ELSE updateLastAssistantMessage(ms, applyStreamingChunk(Last(ms), buffer.pending))

\* History: `next` is a delta, and is taken for a repetition of `current`.
Swallowed(current, next) ==
    IF ~config.snapshots /\ Repeats(current, next) THEN swallowed \union {net.source} ELSE swallowed

\* History: what the flush of the buffer swallows.
FlushSwallowed == IF messages = <<>> THEN swallowed ELSE Swallowed(Last(messages).text, buffer.pending)

(***************************************************************************)
(* The states of the request and of the buffer.                            *)
(***************************************************************************)
NoNet ==
    [isStreaming |-> FALSE, isRequesting |-> FALSE,
     source |-> 0,        \* sseSourceRef
     hung |-> FALSE,      \* the server closed the stream without [DONE]
     inflight |-> {},     \* plain requests not answered yet
     aborted |-> {},      \* those whose signal is aborted
     abort |-> 0,         \* abortControllerRef
     current |-> 0]       \* requestIdRef

EmptyBuffer == [pending |-> <<>>, timer |-> FALSE]

isGenerating == net.isStreaming \/ net.isRequesting

Running == (net.source # 0 /\ ~net.hung) \/ net.inflight \ net.aborted # {}

Mounted == page.open

IndexOf(key) == CHOOSE i \in DOMAIN messages : messages[i].key = key

HasKey(key) == \E i \in DOMAIN messages : messages[i].key = key

(***************************************************************************)
(* Storage.                                                                *)
(***************************************************************************)
KeepLast(ms, k) == IF Len(ms) <= k THEN ms ELSE SubSeq(ms, Len(ms) - k + 1, Len(ms))

trimMessages(ms) == KeepLast(ms, MaxStored)

normalizeStoredMessageForLoad(m) ==
    IF m.text = <<>> THEN m
    ELSE [m EXCEPT !.text = OtherText,
                   !.status = IF isAssistantMessagePending(m) THEN "complete" ELSE @]

\* Only the last pending message is repaired.
sanitizeMessagesOnLoad(ms) ==
    LET pendings == {i \in DOMAIN ms : isAssistantMessagePending(ms[i])}
    IN  IF pendings = {} THEN ms
        ELSE [ms EXCEPT ![CHOOSE i \in pendings : \A j \in pendings : j <= i] =
                 [@ EXCEPT !.status = "error", !.text = ErrorText]]

\* trimMessages, then trimMessagesByContentSize: of k messages that fit.
loadMessages(k) ==
    sanitizeMessagesOnLoad(KeepLast(
        [i \in DOMAIN stored |-> normalizeStoredMessageForLoad(stored[i])], k))

\* A save that fails (the schema refuses a message, or the storage is full) is
\* only logged.
saveMessages(ms, failed) == stored' = IF failed THEN stored ELSE trimMessages(ms)

\* updateMessages: show the new conversation and (re)start the save timer.
updateMessages(ms) ==
    /\ messages' = ms
    /\ saving' = TRUE

---------------------------------------------------------------------------
(* The page is opened, left and closed.                                    *)

NothingDelivered == [n \in 0 .. MaxSends |-> <<>>]

\* The first visit: nothing is stored.
Init ==
    /\ config \in {c \in [stream : BOOLEAN, snapshots : BOOLEAN] : c.snapshots => c.stream}
    /\ page = [open |-> FALSE, opens |-> 0]
    /\ messages = <<>>
    /\ stored = <<>>
    /\ editing = NoKey
    /\ net = NoNet /\ buffer = EmptyBuffer
    /\ saving = FALSE
    /\ detached = {}
    /\ sends = 0 /\ delivered = NothingDelivered
    /\ overlapped = FALSE /\ swallowed = {} /\ unkept = FALSE

\* (mutant) The repair is not written back.
OpenPageUnrepaired ==
    /\ ~Mounted /\ page.opens < MaxOpens
    /\ page' = [open |-> TRUE, opens |-> page.opens + 1]
    /\ \E k \in 1 .. MaxStored : messages' = loadMessages(k)
    /\ UNCHANGED <<config, editing, net, buffer, saving, stored, detached, sends, delivered, history>>

\* A conversation that the load changed is written back; one that it did not
\* change is stored already.
LoadSucceeds ==
    \E k \in 1 .. MaxStored, failed \in BOOLEAN :
       /\ messages' = loadMessages(k)
       /\ saveMessages(loadMessages(k), failed)
       /\ unkept' = failed

\* What is stored cannot be read, or is too large and removed.
LoadFails ==
    /\ messages' = <<>>
    /\ \/ UNCHANGED stored /\ unkept' = TRUE
       \/ stored' = <<>> /\ unkept' = FALSE

\* The effect that loads runs on the first timer after the mount.
OpenPage ==
    /\ ~Mounted /\ page.opens < MaxOpens
    /\ page' = [open |-> TRUE, opens |-> page.opens + 1]
    /\ LoadSucceeds \/ LoadFails
    /\ UNCHANGED <<config, editing, net, buffer, saving, detached, sends, delivered,
                   overlapped, swallowed>>

Unmounted ==
    /\ page' = [page EXCEPT !.open = FALSE]
    /\ messages' = <<>> /\ editing' = NoKey
    /\ net' = NoNet /\ buffer' = EmptyBuffer
    /\ saving' = FALSE
    /\ delivered' = NothingDelivered
    /\ overlapped' = FALSE /\ swallowed' = {} /\ unkept' = FALSE

\* The user goes to another page of the app.  A save that is due is made; the
\* flush timer is cleared and what it would have flushed is lost.  The request
\* is not stopped.
LeavePage ==
    /\ Mounted
    /\ Unmounted
    /\ IF saving THEN \E failed \in BOOLEAN : saveMessages(messages, failed) ELSE UNCHANGED stored
    /\ detached' = IF Running THEN detached \union {messages} ELSE detached
    /\ UNCHANGED <<config, sends>>

\* The tab is closed or reloaded: no cleanup runs, every timer is gone.
CloseTab ==
    /\ Mounted
    /\ Unmounted
    /\ detached' = {}
    /\ UNCHANGED <<config, stored, sends>>

\* The request of a page that was left reports.  React drops the update, or
\* computes it at once on the page's last conversation; then persistMessages
\* runs, and that conversation is saved (a save that fails changes nothing).
DetachedReports ==
    \E ms \in detached :
       /\ detached' = detached \ {ms}
       /\ \/ UNCHANGED <<stored, unkept>>
          \/ /\ \E status \in {"streaming", "complete", "error"} :
                   saveMessages(updateLastAssistantMessage(ms,
                       [Last(ms) EXCEPT !.status = status, !.text = OtherText]), FALSE)
             /\ unkept' = Mounted
       /\ UNCHANGED <<config, page, messages, editing, net, buffer, saving,
                      sends, delivered, overlapped, swallowed>>

SaveTimer ==
    /\ Mounted /\ saving
    /\ \E failed \in BOOLEAN : saveMessages(messages, failed) /\ unkept' = failed
    /\ saving' = FALSE
    /\ UNCHANGED <<config, page, messages, editing, net, buffer, detached,
                   sends, delivered, overlapped, swallowed>>

---------------------------------------------------------------------------
(* sendChat: a streamed or a plain request for the conversation ms.        *)

\* The previous source is closed; its buffered chunks are not touched.
sendStreamingChat(ms) ==
    LET opened == [net EXCEPT !.isRequesting = TRUE, !.isStreaming = TRUE,
                              !.source = sends + 1, !.hung = FALSE]
    IN  \/ /\ updateMessages(ms)
           /\ net' = opened
           /\ UNCHANGED buffer
        \/ \* source.stream() throws: onError, then the source is closed
           /\ updateMessages(updateAssistantMessageWithError(Flushed(ms)))
           /\ net' = [opened EXCEPT !.isRequesting = FALSE, !.isStreaming = FALSE, !.source = 0]
           /\ buffer' = EmptyBuffer

\* A request that is still running is neither aborted nor forgotten.
sendNonStreamingChat(ms) ==
    /\ updateMessages(ms)
    /\ net' = [net EXCEPT !.isRequesting = TRUE,
                          !.inflight = @ \union {sends + 1},
                          !.abort = sends + 1, !.current = sends + 1]
    /\ UNCHANGED buffer

sendChat(ms) ==
    /\ sends < MaxSends
    /\ sends' = sends + 1
    /\ overlapped' = (overlapped \/ isGenerating)
    /\ IF config.stream THEN sendStreamingChat(ms) ELSE sendNonStreamingChat(ms)
    /\ UNCHANGED <<config, page, stored, detached, delivered, swallowed, unkept>>

---------------------------------------------------------------------------
(* What the user does.  The input and the buttons of a message are         *)
(* disabled while an answer is generated; an open editor is not.           *)

\* appendUserMessagePair, then sendChat.  The prompts of an empty conversation
\* are not disabled.
handleSendMessage ==
    /\ Mounted /\ (~isGenerating \/ messages = <<>>)
    /\ sendChat(messages \o <<createUserMessage(sends + 1),
                              createLoadingAssistantMessage(sends + 1)>>)
    /\ UNCHANGED editing

\* createRegeneratedMessages keeps a user message and drops an answer.
createRegeneratedMessages(i) ==
    Append(SubSeq(messages, 1, IF IsAssistant(messages[i]) THEN i - 1 ELSE i),
           createLoadingAssistantMessage(sends + 1))

handleRegenerateMessage ==
    /\ Mounted /\ ~isGenerating
    /\ \E i \in DOMAIN messages :
          /\ messages[i].text # <<>>
          /\ sendChat(createRegeneratedMessages(i))
    /\ UNCHANGED editing

handleEditMessage ==
    /\ Mounted /\ ~isGenerating
    /\ \E i \in DOMAIN messages :
          /\ messages[i].text # <<>>
          /\ editing' = messages[i].key
    /\ UNCHANGED <<config, page, messages, net, buffer, saving, stored,
                   detached, sends, delivered, history>>

handleEditOpenChange ==
    /\ Mounted /\ editing # NoKey
    /\ editing' = NoKey
    /\ UNCHANGED <<config, page, messages, net, buffer, saving, stored,
                   detached, sends, delivered, history>>

Edited(ms, i) == [ms EXCEPT ![i].text = OtherText]

\* Save: the edited message, in place.  The editor is shown only while its
\* message is; saving is possible while an answer is being generated.  The code
\* edits the conversation of the last render: an update that is not rendered yet
\* is overwritten, which the model leaves out.
SaveEdit ==
    /\ Mounted /\ HasKey(editing)
    /\ editing' = NoKey
    /\ updateMessages(Edited(messages, IndexOf(editing)))
    /\ UNCHANGED <<config, page, net, buffer, stored, detached, sends, delivered, history>>

\* Save & Submit: what follows the edited prompt is dropped and asked again.
applyMessageEdit(i) ==
    Append(SubSeq(Edited(messages, i), 1, i), createLoadingAssistantMessage(sends + 1))

SubmitEdit ==
    /\ Mounted /\ HasKey(editing) /\ editing[1] = "user"
    /\ editing' = NoKey
    /\ sendChat(applyMessageEdit(IndexOf(editing)))

\* No other message has the key of the i-th one (nanoid).
removeMessageByKey(i) == RemoveAt(messages, i)

handleDeleteMessage ==
    /\ Mounted /\ ~isGenerating
    /\ \E i \in DOMAIN messages : updateMessages(removeMessageByKey(i))
    /\ UNCHANGED <<config, page, editing, net, buffer, stored, detached,
                   sends, delivered, history>>

handleClearMessages ==
    /\ Mounted /\ ~isGenerating /\ messages # <<>>
    /\ editing' = NoKey
    /\ updateMessages(<<>>)
    /\ UNCHANGED <<config, page, net, buffer, stored, detached, sends, delivered, history>>

\* (mutant) The flush timer survives the stop.
stopGenerationUnflushed ==
    /\ Mounted /\ isGenerating
    /\ net' = [net EXCEPT !.isStreaming = FALSE, !.isRequesting = FALSE,
                          !.source = 0, !.hung = FALSE,
                          !.aborted = @ \union ({net.abort} \ {0}), !.abort = 0]
    /\ updateMessages(CompleteUnlessFinal(messages))
    /\ UNCHANGED <<config, page, editing, buffer, stored, detached, sends, delivered, history>>

\* Close the stream, flush, abort the plain request, complete the answer.
stopGeneration ==
    /\ Mounted /\ isGenerating
    /\ net' = [net EXCEPT !.isStreaming = FALSE, !.isRequesting = FALSE,
                          !.source = 0, !.hung = FALSE,
                          !.aborted = @ \union ({net.abort} \ {0}), !.abort = 0]
    /\ buffer' = EmptyBuffer
    /\ LET ms == Flushed(messages) IN
       updateMessages(updateLastAssistantMessage(ms,
           IF isAssistantMessagePending(Last(ms)) THEN completeAssistantMessage(Last(ms)) ELSE Last(ms)))
    /\ swallowed' = FlushSwallowed
    /\ UNCHANGED <<config, page, editing, stored, detached, sends, delivered, overlapped, unkept>>

---------------------------------------------------------------------------
(* What the requests do.  A closed source reports nothing more.            *)

Live == Mounted /\ net.source # 0 /\ ~net.hung

\* A letter that request n has sent before, or a new one.
NextLetter(n) == {<<n, j>> : j \in 1 .. Len(delivered[n]) + 1}

Chunk(n, letter) == IF config.snapshots THEN Append(delivered[n], letter) ELSE <<letter>>

handleStreamUpdate ==
    LET n == net.source
    IN  /\ Live /\ Len(delivered[n]) < MaxChunks
        /\ \E letter \in NextLetter(n) :
              /\ buffer' = [pending |-> mergePendingStreamChunk(buffer.pending, Chunk(n, letter)),
                            timer |-> TRUE]
              /\ delivered' = [delivered EXCEPT ![n] = Append(@, letter)]
              /\ swallowed' = Swallowed(buffer.pending, Chunk(n, letter))
        /\ UNCHANGED <<config, page, messages, editing, net, saving, stored,
                       detached, sends, overlapped, unkept>>

flushStreamUpdates ==
    /\ Mounted /\ buffer.timer
    /\ buffer' = EmptyBuffer
    /\ IF buffer.pending = <<>> THEN UNCHANGED <<messages, saving>>
       ELSE updateMessages(Flushed(messages))
    /\ swallowed' = FlushSwallowed
    /\ UNCHANGED <<config, page, editing, net, stored, detached, sends, delivered, overlapped, unkept>>

StreamEnded == [net EXCEPT !.isStreaming = FALSE, !.isRequesting = FALSE, !.source = 0]

\* [DONE]
handleStreamComplete ==
    /\ Live
    /\ net' = StreamEnded
    /\ buffer' = EmptyBuffer
    /\ updateMessages(CompleteUnlessFinal(Flushed(messages)))
    /\ swallowed' = FlushSwallowed
    /\ UNCHANGED <<config, page, editing, stored, detached, sends, delivered, overlapped, unkept>>

\* An error event, a chunk that does not parse or a status other than 200.
handleStreamError ==
    /\ Live
    /\ net' = StreamEnded
    /\ buffer' = EmptyBuffer
    /\ updateMessages(updateAssistantMessageWithError(Flushed(messages)))
    /\ UNCHANGED <<config, page, editing, stored, detached, sends, delivered, history>>

\* The connection of a 200 answer ends without [DONE]: no listener acts.
StreamHangs ==
    /\ Live
    /\ net' = [net EXCEPT !.hung = TRUE]
    /\ UNCHANGED <<config, page, messages, editing, buffer, saving, stored,
                   detached, sends, delivered, history>>

\* The finally block: only the latest request clears the flags.
Settled(n, requesting) ==
    [net EXCEPT !.inflight = @ \ {n}, !.aborted = @ \ {n},
                !.abort = IF net.current = n THEN 0 ELSE @,
                !.isRequesting = IF net.current = n THEN FALSE ELSE requesting]

PlainAnswers ==
    /\ Mounted
    /\ \E n \in net.inflight :
          /\ net' = Settled(n, net.isRequesting)
          /\ IF n \in net.aborted THEN UNCHANGED <<messages, saving, delivered>>
             ELSE /\ updateMessages(applyChatCompletionResponse(messages, n))
                  /\ delivered' = [delivered EXCEPT ![n] = << <<n, 1>> >>]
    /\ UNCHANGED <<config, page, editing, buffer, stored, detached, sends, history>>

\* A failure, or an answer without a choice: handleStreamError clears the flag
\* whichever request is the latest.
PlainFails ==
    /\ Mounted
    /\ \E n \in net.inflight :
          IF n \in net.aborted
          THEN /\ net' = Settled(n, net.isRequesting)
               /\ UNCHANGED <<messages, saving, buffer>>
          ELSE /\ net' = Settled(n, FALSE)
               /\ buffer' = EmptyBuffer
               /\ updateMessages(updateAssistantMessageWithError(Flushed(messages)))
    /\ UNCHANGED <<config, page, editing, stored, detached, sends, delivered, history>>

---------------------------------------------------------------------------
UserActs ==
    \/ handleSendMessage \/ handleRegenerateMessage
    \/ handleEditMessage \/ handleEditOpenChange
    \/ SaveEdit \/ SubmitEdit
    \/ handleDeleteMessage \/ handleClearMessages
    \/ stopGeneration
    \/ OpenPage \/ LeavePage \/ CloseTab

StreamReports ==
    handleStreamUpdate \/ handleStreamComplete \/ handleStreamError \/ StreamHangs

PlainReports == PlainAnswers \/ PlainFails

Next ==
    \/ UserActs
    \/ StreamReports \/ PlainReports
    \/ flushStreamUpdates \/ SaveTimer \/ DetachedReports

PlaygroundSpec == Init /\ [][Next]_playgroundVars

---------------------------------------------------------------------------
MessageType ==
    [key : Keys, status : {"loading", "streaming", "complete", "error"}, text : Seq(Nat \X Nat)]

\* The state has its type.
PlaygroundTypeOK ==
    /\ config \in [stream : BOOLEAN, snapshots : BOOLEAN]
    /\ page \in [open : BOOLEAN, opens : 0 .. MaxOpens]
    /\ \A i \in DOMAIN messages : messages[i] \in MessageType
    /\ \A i \in DOMAIN stored : stored[i] \in MessageType
    /\ Len(stored) <= MaxStored
    /\ editing \in Keys \union {NoKey}
    /\ net.source \in 0 .. MaxSends /\ net.inflight \subseteq 1 .. MaxSends
    /\ net.aborted \subseteq net.inflight
    /\ (buffer.pending # <<>>) = buffer.timer
    /\ {saving, overlapped, unkept} \subseteq BOOLEAN
    /\ swallowed \subseteq 0 .. MaxSends
    /\ sends \in 0 .. MaxSends
    /\ \A n \in 0 .. MaxSends :
          delivered[n] \in Seq(Nat \X Nat) /\ Len(delivered[n]) <= MaxChunks

\* A message that shows a spinner is the last one and the page is generating,
\* so that the Stop button is there (isGenerating) and a load, which repairs a
\* single pending message, leaves none behind.  It must hold through late
\* timers, stops, edits submitted while an answer runs, and reloads.
PendingCanBeStopped ==
    \A i \in DOMAIN messages :
        isAssistantMessagePending(messages[i]) => i = Len(messages) /\ isGenerating

\* A completed answer has letters of its own request only and no more than that
\* request delivered: the buffer does not double what a provider repeats, and
\* flushStreamUpdates and the handlers, which write to the last message whichever
\* it is, take nothing from another request.  It is exactly what was delivered
\* unless startsWith took a delta for a repetition: the code then drops text, for
\* a delta that begins with the text still pending (use-chat-handler.ts:58) or
\* pending text that begins with the text shown (message-streaming-utils.ts:74).
\* It holds as long as no edit is submitted while an answer is generated.
AnswerIsItsOwn ==
    ~overlapped =>
        \A i \in DOMAIN messages :
            LET m == messages[i]
                n == m.key[2]
            IN  IsAssistant(m) /\ m.status = "complete" /\ m.text # OtherText
                    => /\ \A j \in DOMAIN m.text : m.text[j][1] = n
                       /\ Len(m.text) <= Len(delivered[n])
                       /\ n \notin swallowed => m.text = delivered[n]

\* What is shown is what localStorage keeps, unless a save is due
\* (persistMessages), the last save or load failed, or a page that was left has
\* written over it.
ShownIsKept ==
    Mounted /\ ~saving /\ ~unkept => stored = trimMessages(messages)
=============================================================================
