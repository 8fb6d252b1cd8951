------------------------------- MODULE PageCalls -------------------------------
(***************************************************************************)
(* One call of a method of the client: the steps it takes in node, the     *)
(* function it sends to the page with evaluateAndReturn, the answer.  The  *)
(* page may be replaced or closed while the function runs, puppeteer gives *)
(* up after its protocol timeout while the function goes on, and a method  *)
(* that does not await its effect settles before it.  A request by HTTP    *)
(* has no time limit at all.                                               *)
(***************************************************************************)
EXTENDS BrowserPage, FiniteSets, Sequences, Functions, SenderCalls, ChatCalls, GroupCalls

CONSTANTS
  Call,      \* the calls a user of the client has made
  MaxPolls   \* bound: requests of a media that decryptFile repeats

ASSUME CallsAssumption == MaxPolls \in Nat

VARIABLES
  program,   \* program[c]: the steps of the method that c called
  at,        \* at[c]: the step c has come to
  stage,     \* "idle", "node", "network", "sent", "answered", "refused", or how c settled
  cause,     \* cause[c]: why c was rejected
  tries,     \* tries[c]: the failed requests of the media
  origin,    \* origin[c]: the document the page function of c runs in
  late,      \* late[c]: a page function of c runs that c no longer waits for
  effects    \* effects[c]: what c did to the account

callVars == <<program, at, stage, cause, tries, origin, late, effects>>

Settled == {"resolved", "rejected", "lost"}

\* The programs of all the methods of a client; methods that take the same steps
\* have the same program.
Programs ==
  UNION {Range(TextSenders), Range(ImageSenders), Range(ThumbSenders),
         Range(PttSenders), Range(FileSenders), Range(GifSenders),
         Range(CardSenders), Range(StickerGifSenders), Range(StickerSenders),
         Range(PresenceSenders), Range(ListSenders), Range(OrderSenders),
         Range(ChatReaders), Range(ContactReaders), Range(MessageReaders),
         Range(DetailReaders), Range(ChatControls), Range(MessageControls),
         Range(ChatWindows), Range(ProfileControls), Range(StatusSenders),
         Range(HostQueries), Range(PresenceSubscriptions), Range(ClientCalls),
         Range(MediaCalls), Range(GroupInvites), Range(GroupSettings),
         Range(GroupRequests), Range(CommunityControls),
         Range(NewsletterControls), Range(LabelControls),
         Range(ProductControls), Range(CollectionControls),
         Range(BusinessReaders), Range(BusinessControls)}

CallsTypeOK ==
  /\ program \in [Call -> Programs \cup {<<>>}]
  /\ at \in [Call -> 1 .. 5]
  /\ stage \in [Call -> {"idle", "node", "network", "sent", "answered", "refused"} \cup Settled]
  /\ cause \in [Call -> {"none", "input", "page", "unbound", "answer", "timeout"}]
  /\ tries \in [Call -> Nat]
  /\ origin \in [Call -> 0 .. MaxLoads]
  /\ late \in [Call -> BOOLEAN]
  /\ effects \in [Call -> 0 .. 1]

CallsInit ==
  /\ program = [c \in Call |-> <<>>]
  /\ at = [c \in Call |-> 1]
  /\ stage = [c \in Call |-> "idle"]
  /\ cause = [c \in Call |-> "none"]
  /\ tries = [c \in Call |-> 0]
  /\ origin = [c \in Call |-> 0]
  /\ late = [c \in Call |-> FALSE]
  /\ effects = [c \in Call |-> 0]

Begin(c, p) ==
  /\ stage[c] = "idle"
  /\ program' = [program EXCEPT ![c] = p]
  /\ stage' = [stage EXCEPT ![c] = "node"]
  /\ UNCHANGED <<at, cause, tries, origin, late, effects>>

Step(c) == program[c][at[c]]

\* The next step, or the end of the method.
Advance(c) ==
  /\ IF at[c] = Len(program[c])
     THEN /\ stage' = [stage EXCEPT ![c] = "resolved"]
          /\ UNCHANGED at
     ELSE /\ at' = [at EXCEPT ![c] = @ + 1]
          /\ stage' = [stage EXCEPT ![c] = "node"]
  /\ UNCHANGED cause

\* The promise of the method is never settled.
Lose(c) == stage' = [stage EXCEPT ![c] = "lost"] /\ UNCHANGED <<at, cause>>

Reject(c, why) ==
  /\ stage' = [stage EXCEPT ![c] = "rejected"]
  /\ cause' = [cause EXCEPT ![c] = why]
  /\ UNCHANGED at

\* What fileToBase64 makes of what a caller passes as pathOrBase64, unless it is a data
\* URI: existsSync holds for a folder, readFileSync throws.
ReadOutcomes(path) ==
  CASE path \in {"dataURI", "file"} -> {"data"}
    [] path = "folder"              -> {"throw"}
    [] OTHER                        -> {"nothing"}

\* Mutant: an unreadable input ends the method without an error.
ReadPathResolves(c, path) ==
  /\ stage[c] = "node"
  /\ Step(c) \in {"read", "orphan"}
  /\ \E read \in ReadOutcomes(path) :
       IF read = "data" THEN Advance(c)
       ELSE stage' = [stage EXCEPT ![c] = "resolved"] /\ UNCHANGED <<at, cause>>
  /\ UNCHANGED <<program, tries, origin, late, effects>>

\* Mutant: every method reads inside an async promise executor.
ReadPathOrphaned(c, path) ==
  /\ stage[c] = "node"
  /\ Step(c) \in {"read", "orphan"}
  /\ \E read \in ReadOutcomes(path) :
       CASE read = "data"  -> Advance(c)
         [] read = "throw" -> Lose(c)
         [] OTHER          -> Reject(c, "input")
  /\ UNCHANGED <<program, tries, origin, late, effects>>

\* An exception inside an async promise executor settles nothing.
ReadPath(c, path) ==
  /\ stage[c] = "node"
  /\ Step(c) \in {"read", "orphan"}
  /\ \E read \in ReadOutcomes(path) :
       CASE read = "data" -> Advance(c)
         [] read = "throw" /\ Step(c) = "orphan" -> Lose(c)
         [] OTHER -> Reject(c, "input")
  /\ UNCHANGED <<program, tries, origin, late, effects>>

\* axios.get of a path that is a URL, or of the media of a message.
Request(c) ==
  /\ stage[c] = "node"
  /\ Step(c) \in {"read", "orphan", "poll", "retry"}
  /\ stage' = [stage EXCEPT ![c] = "network"]
  /\ UNCHANGED <<program, at, cause, tries, origin, late, effects>>

\* downloadFileToBase64: what goes wrong with the request or its type is no exception,
\* and a URL is no file either.
Download(c) ==
  /\ stage[c] = "network"
  /\ Step(c) \in {"read", "orphan"}
  /\ Advance(c) \/ Reject(c, "input")
  /\ UNCHANGED <<program, tries, origin, late, effects>>

\* A check of the type of the data, or a conversion by sharp or ffmpeg.
Check(c) ==
  /\ stage[c] = "node"
  /\ Step(c) \in {"mime", "convert"}
  /\ Advance(c) \/ Reject(c, "input")
  /\ UNCHANGED <<program, tries, origin, late, effects>>

\* A check of what the page answered.
Verify(c) ==
  /\ stage[c] = "node"
  /\ Step(c) = "verify"
  /\ Advance(c) \/ Reject(c, "answer")
  /\ UNCHANGED <<program, tries, origin, late, effects>>

\* decryptFile: an error ends the method, after any other status it asks again.
Poll(c) ==
  /\ stage[c] = "network"
  /\ Step(c) = "poll"
  /\ \/ (Advance(c) \/ Reject(c, "input")) /\ UNCHANGED tries
     \/ /\ tries[c] < MaxPolls
        /\ tries' = [tries EXCEPT ![c] = @ + 1]
        /\ stage' = [stage EXCEPT ![c] = "node"]
        /\ UNCHANGED <<at, cause>>
  /\ UNCHANGED <<program, origin, late, effects>>

\* downloadEncryptedFile: the third error, of the request or of the writer, is thrown; a
\* response that breaks after its headers is an error of neither.
Retry(c) ==
  /\ stage[c] = "network"
  /\ Step(c) = "retry"
  /\ \/ (Advance(c) \/ Lose(c)) /\ UNCHANGED tries
     \/ /\ tries' = [tries EXCEPT ![c] = @ + 1]
        /\ IF tries[c] + 1 = 3 THEN Reject(c, "input")
           ELSE stage' = [stage EXCEPT ![c] = "node"] /\ UNCHANGED <<at, cause>>
  /\ UNCHANGED <<program, origin, late, effects>>

\* decryptAndSaveFile: errors of the decryption, the writer and the unlink are awaited,
\* those of the reader are not.
Pipe(c) ==
  /\ stage[c] = "node"
  /\ Step(c) = "pipe"
  /\ Advance(c) \/ Reject(c, "input") \/ Lose(c)
  /\ UNCHANGED <<program, tries, origin, late, effects>>

\* Mutant: the promise of an effect is not returned from the page.
SendUnawaited(c) ==
  /\ stage[c] = "node"
  /\ Step(c) \in {"act", "may", "query", "attempt", "ignore", "unbound"}
  /\ IF ~Works THEN Reject(c, "page") /\ UNCHANGED <<origin, late>>
     ELSE /\ Advance(c)
          /\ origin' = [origin EXCEPT ![c] = document]
          /\ late' = [late EXCEPT ![c] = Step(c) \in {"act", "may", "ignore"}]
  /\ UNCHANGED <<program, tries, effects>>

\* A page function starts in the current document; evaluateAndReturn turns what it
\* throws into a rejection.
Send(c) ==
  /\ stage[c] = "node"
  /\ Step(c) \in {"act", "may", "query", "attempt", "ignore", "unbound"}
  /\ CASE ~Works /\ Step(c) # "attempt"    -> Reject(c, "page") /\ UNCHANGED <<origin, late>>
       [] ~Works /\ Step(c) = "attempt"    -> Advance(c) /\ UNCHANGED <<origin, late>>
       [] Works /\ Step(c) = "unbound"     -> Reject(c, "unbound") /\ UNCHANGED <<origin, late>>
       [] Works /\ Step(c) = "ignore"      ->
            /\ Advance(c)
            /\ origin' = [origin EXCEPT ![c] = document]
            /\ late' = [late EXCEPT ![c] = TRUE]
       [] OTHER                            ->
            /\ stage' = [stage EXCEPT ![c] = "sent"]
            /\ origin' = [origin EXCEPT ![c] = document]
            /\ UNCHANGED <<at, cause, late>>
  /\ UNCHANGED <<program, tries, effects>>

\* The page function ends: with an answer, and then an "act" has had its effect and a
\* "may" has or has not, or with an exception before or after the effect.
Evaluate(c) ==
  /\ stage[c] = "sent"
  /\ origin[c] = document /\ Works
  /\ \E answer \in {"answered", "refused"} : stage' = [stage EXCEPT ![c] = answer]
  /\ \/ /\ Step(c) \in {"act", "may"}
        /\ effects' = [effects EXCEPT ![c] = @ + 1]
     \/ /\ Step(c) # "act" \/ stage'[c] = "refused"
        /\ UNCHANGED effects
  /\ UNCHANGED <<program, at, cause, tries, origin, late>>

\* The answer reaches node.
Answer(c) ==
  /\ \/ stage[c] = "answered" /\ Advance(c)
     \/ stage[c] = "refused" /\ IF Step(c) = "attempt" THEN Advance(c) ELSE Reject(c, "page")
  /\ UNCHANGED <<program, tries, origin, late, effects>>

\* The document went away before the answer reached node.
Forsake(c) ==
  /\ stage[c] \in {"sent", "answered", "refused"}
  /\ origin[c] # document \/ ~Works
  /\ IF Step(c) = "attempt" THEN Advance(c) ELSE Reject(c, "page")
  /\ UNCHANGED <<program, tries, origin, late, effects>>

\* The protocol timeout of puppeteer; the page function is not stopped.
TimeOut(c) ==
  /\ stage[c] = "sent"
  /\ IF Step(c) = "attempt" THEN Advance(c) ELSE Reject(c, "timeout")
  /\ late' = [late EXCEPT ![c] = Step(c) \in {"act", "may"}]
  /\ UNCHANGED <<program, tries, origin, effects>>

\* What a page function does that nobody waits for.
Float(c) ==
  /\ late[c]
  /\ late' = [late EXCEPT ![c] = FALSE]
  /\ \/ origin[c] = document /\ Works /\ effects' = [effects EXCEPT ![c] = @ + 1]
     \/ UNCHANGED effects
  /\ UNCHANGED <<program, at, stage, cause, tries, origin>>

CallNext(c) ==
  \/ \E p \in Programs : Begin(c, p)
  \/ \E path \in {"dataURI", "file", "folder", "missing"} : ReadPath(c, path)
  \/ Request(c) \/ Download(c) \/ Poll(c) \/ Retry(c)
  \/ Check(c) \/ Verify(c) \/ Pipe(c)
  \/ Send(c)
  \/ Evaluate(c)
  \/ Answer(c)
  \/ Forsake(c)
  \/ TimeOut(c)
  \/ Float(c)

CallsNext == UNCHANGED pageVars /\ \E c \in Call : CallNext(c)

\* Node runs what is ready, and the protocol timeout expires.  Nothing makes the answer
\* of a request by HTTP arrive (Download, Poll, Retry).
Proceed(c) ==
  \/ \E path \in {"dataURI", "file", "folder", "missing"} : ReadPath(c, path)
  \/ Request(c) \/ Check(c) \/ Verify(c) \/ Pipe(c) \/ Send(c)
  \/ Answer(c) \/ Forsake(c) \/ TimeOut(c)

CallsFairness == \A c \in Call : WF_callVars(Proceed(c))

-----------------------------------------------------------------------------

Takes(c, kind) == \E i \in 1 .. Len(program[c]) : program[c][i] = kind

Awaits(c) == ~Takes(c, "ignore")

Acts(c) == Cardinality({i \in 1 .. Len(program[c]) : program[c][i] = "act"})

Mays(c) == Cardinality({i \in 1 .. Len(program[c]) : program[c][i] = "may"})

\* A method that awaits its effect and resolves has had it once, whatever became of its
\* input, the page or the protocol meanwhile; the methods whose page function may answer
\* without an effect ("may") have had it once at most.
ResolvedHadEffect ==
  \A c \in Call : stage[c] = "resolved" /\ Awaits(c) =>
    Acts(c) <= effects[c] /\ effects[c] <= Acts(c) + Mays(c)

\* A method that refuses its input, or what sharp or ffmpeg made of it, has not yet
\* touched the account.
RefusedHadNone == \A c \in Call : cause[c] = "input" => effects[c] = 0 /\ ~late[c]

\* What was settled stays so: the account changes after a call settled only when the
\* call timed out or did not wait for its effect.
SettledIsQuiet ==
  [][\A c \in Call : stage[c] \in Settled /\ effects'[c] # effects[c] =>
       cause[c] = "timeout" \/ ~Awaits(c)]_callVars

\* Every call settles, whatever becomes of the page, unless a request by HTTP is never
\* answered; lost are only an exception in the executor of sendPtt ("orphan"), a response
\* that breaks and an encrypted file that cannot be read ("retry" and "pipe" of
\* decryptAndSaveFile), and decryptFile ("poll") may ask for ever.
CallsSettle ==
  \A c \in Call :
    stage[c] = "node" /\ ~Takes(c, "poll")
      ~> \/ stage[c] \in {"resolved", "rejected"}
         \/ stage[c] = "lost" /\ \E kind \in {"orphan", "retry", "pipe"} : Takes(c, kind)
         \/ [](stage[c] = "network")
==============================================================================
