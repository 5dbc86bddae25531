----------------------------- MODULE TerminalApp -----------------------------
(***************************************************************************)
(* A run of the program: its arguments, its configuration, the command it  *)
(* carries out and the code it exits with (apps/tersa/src/main.rs, cli.rs, *)
(* config.rs, commands.rs, and crates/presentation/src/terminal.rs).       *)
(*                                                                         *)
(* What a command does to an account is in AccountLifecycle, how it gets   *)
(* the root key in RootKeyVault; here each of these succeeds or fails. The *)
(* lock is held from the opening to the end, so no other command comes     *)
(* between. A word is a string; the characters of one are told apart only  *)
(* where names of accounts are compared, in Spelling.                      *)
(***************************************************************************)
EXTENDS MessageDisplay, ClientSetup

CONSTANTS
    Words,        \* words of a command line
    MaxWords,     \* bound on their number
    Numbers,      \* the words that are numbers, and what they say
    Spelling,     \* the names of accounts, whole and shortened, by character
    Accounts,     \* account ids, all of one length
    Columns,      \* the width of the sender
    Ports,        \* ports a listener that asks for any is given
    Inboxes       \* cached mail that may be listed, the newest first

\* The characters of a text are told apart by what is done with them.
Characters == {"x", "\n", "escape", "bidi"}
Envelopes == [from : Seq(Characters), subject : Seq(Characters), unread : BOOLEAN, received : Nat]

ASSUME PortAssumption == Ports \subseteq MIN_LOOPBACK_PORT..65535
ASSUME TextAssumption == Columns \in Nat \ {0} /\ Inboxes \subseteq Seq(Envelopes)
ASSUME AccountsAssumption == IsFiniteSet(Accounts)

\* An option is no number and no beginning of an account's name.
ASSUME WordsAssumption ==
    /\ MaxWords \in Nat
    /\ None \notin Words /\ None \notin SeqOf(Words, MaxWords)
    /\ \A word \in DOMAIN Numbers : Numbers[word] \in Nat
    /\ "--limit" \notin DOMAIN Numbers \cup DOMAIN Spelling

DEFAULT_INBOX_LIMIT == 25
Verbs == {"help", "version", "add", "list", "remove", "sync", "inbox", "doctor"}
Options == {"-h", "--help", "-V", "--version", "--limit"}

VARIABLES
    argv,         \* the words, None before the program starts
    asked,      \* what they were taken for, None if for nothing
    client,       \* the OAuth client of the configuration, None before it is read
    refused,      \* whether a validation refused that client
    storage,      \* "absent", "locked" or "ready"; "opened" or "created" by this run
    accounts,     \* the registered accounts in order
    todo,         \* what is left of a sync
    touched, failed,    \* accounts the run worked on, and those it failed for
    cached, printed,    \* the mail that is listed, and the lines that are written
    exit          \* the exit code

run == <<argv, asked, client, refused, storage, accounts, todo, touched, failed, cached, printed, exit>>

-----------------------------------------------------------------------------
(* Arguments.                                                               *)

Command(verb, name, limit) == [verb |-> verb, name |-> name, limit |-> limit]

\* parse_inbox, word by word: what is known after each of them.
InboxWord(st, word) ==
    IF st.wants
    THEN [st EXCEPT !.wants = FALSE,
                    !.ok = @ /\ word \in DOMAIN Numbers /\ Numbers[word] \in 1..500,
                    !.limit = IF word \in DOMAIN Numbers THEN Numbers[word] ELSE @]
    ELSE IF word = "--limit" THEN [st EXCEPT !.wants = TRUE]
    ELSE [st EXCEPT !.ok = @ /\ st.name = None /\ word \notin Options, !.name = word]

InboxStart == [name |-> None, limit |-> DEFAULT_INBOX_LIMIT, wants |-> FALSE, ok |-> TRUE]

InboxWords(rest) ==
    LET after[i \in 0..Len(rest)] ==
            IF i = 0 THEN InboxStart ELSE InboxWord(after[i - 1], rest[i])
    IN  after[Len(rest)]

ParseInbox(rest) ==
    LET st == InboxWords(rest)
    IN  IF st.ok /\ ~st.wants THEN Command("inbox", st.name, st.limit) ELSE None

Parse(words) ==
    LET plain(verb) == Command(verb, None, DEFAULT_INBOX_LIMIT)
    IN  CASE words = <<>> -> plain("help")
          [] Len(words) = 1 /\ words[1] \in {"help", "-h", "--help"} -> plain("help")
          [] Len(words) = 1 /\ words[1] \in {"version", "-V", "--version"} -> plain("version")
          [] Len(words) = 1 /\ words[1] \in {"sync", "doctor"} -> plain(words[1])
          [] Len(words) = 2 /\ words[1] = "account" /\ words[2] \in {"add", "list"} -> plain(words[2])
          [] Len(words) = 3 /\ words[1] = "account" /\ words[2] = "remove" ->
                Command("remove", words[3], DEFAULT_INBOX_LIMIT)
          [] Len(words) = 2 /\ words[1] = "sync" -> Command("sync", words[2], DEFAULT_INBOX_LIMIT)
          [] Len(words) > 0 /\ words[1] = "inbox" -> ParseInbox(Tail(words))
          [] OTHER -> None

-----------------------------------------------------------------------------
(* Configuration and accounts.                                              *)

\* FileConfig: one that is too large, cannot be read, is no TOML, has a key or a
\* backend nobody knows is invalid; what it says is "read" otherwise.
FileConfig == {"absent", "invalid", "read"}
Unset == [id |-> "absent", secret |-> "absent"]

Matches(raw) ==
    {a \in Range(accounts) : raw \in DOMAIN Spelling /\ IsPrefix(Spelling[raw], Spelling[a])}

\* (mutant of ResolveAccount: the first of several matches)
ResolveFirst(raw) == IF Matches(raw) = {} THEN None ELSE CHOOSE a \in Matches(raw) : TRUE

ResolveAccount(raw) ==
    IF Cardinality(Matches(raw)) = 1 THEN CHOOSE a \in Matches(raw) : TRUE ELSE None

\* The accounts of `sync`: the one that is named, or all of them.
Targets ==
    IF asked.name = None THEN accounts
    ELSE IF ResolveAccount(asked.name) = None THEN None ELSE <<ResolveAccount(asked.name)>>

\* The account of `inbox`: the one that is named, or the first.
Shown ==
    IF asked.name # None THEN ResolveAccount(asked.name)
    ELSE IF accounts = <<>> THEN None ELSE accounts[1]

-----------------------------------------------------------------------------
(* Lines.                                                                   *)

\* is_allowed: no control and no character that hides or reorders text.
Allowed(c) == c \notin {"\n", "escape", "bidi"}

\* What is made of a character: one, or nothing.
OnOneLine(c) == IF c = "\n" THEN <<"space">> ELSE IF Allowed(c) THEN <<c>> ELSE <<>>

SingleLine(text) ==
    LET line[i \in 0..Len(text)] == IF i = 0 THEN <<>> ELSE line[i - 1] \o OnOneLine(text[i])
    IN  line[Len(text)]

Truncate(text) ==
    IF Len(text) > Columns THEN Append(SubSeq(text, 1, Columns - 1), "...") ELSE text

LineOf(envelope) ==
    [marker |-> IF envelope.unread THEN "*" ELSE "space",
     date |-> FormatUtc(envelope.received),
     from |-> Truncate(SingleLine(envelope.from)),
     subject |-> SingleLine(envelope.subject)]

-----------------------------------------------------------------------------
RunInit ==
    /\ DisplayInit
    /\ argv = None /\ asked = None /\ client = None /\ refused = FALSE
    /\ storage \in {"absent", "locked", "ready"}
    /\ accounts \in {s \in SeqOf(Accounts, Cardinality(Accounts)) : IsInjective(s)}
    /\ storage = "absent" => accounts = <<>>
    /\ todo = <<>> /\ touched = {} /\ failed = {}
    /\ cached = <<>> /\ printed = <<>>
    /\ exit = "none"

Main(words) ==
    /\ argv = None
    /\ argv' = words
    /\ asked' = Parse(words)
    /\ exit' = IF asked' = None THEN "usage"
               ELSE IF asked'.verb \in {"help", "version"} THEN "success" ELSE "none"
    /\ UNCHANGED <<client, refused, storage, accounts, todo, touched, failed, cached, printed>>

\* Paths::discover and Config::load: an unusable file is an error whatever the
\* command needs of it.
Load(discovered, file, section, env) ==
    /\ argv # None /\ exit = "none" /\ client = None
    /\ client' = ConfiguredClient(IF file = "read" THEN section ELSE Unset, env)
    /\ exit' = IF discovered /\ file # "invalid" THEN "none" ELSE "failure"
    /\ UNCHANGED <<argv, asked, refused, storage, accounts, todo, touched, failed, cached, printed>>

Ready(verb) == argv # None /\ exit = "none" /\ client # None /\ asked.verb = verb
End(code) == exit' = code
Opened == IF storage = "absent" THEN "created" ELSE "opened"

\* The client is checked before any key material is made.
AddRefused ==
    /\ Ready("add") /\ storage \in {"absent", "locked", "ready"}
    /\ storage = "locked" \/ ~OAuthClient(client)
    /\ End("failure")
    /\ refused' = ~OAuthClient(client)
    /\ UNCHANGED <<argv, asked, client, storage, accounts, todo, touched, failed, cached, printed>>

\* The unlocking may fail before or after it made something.
OpenForAdd(ok) ==
    /\ Ready("add") /\ storage \in {"absent", "ready"} /\ OAuthClient(client)
    /\ storage' \in IF ok THEN {Opened} ELSE {storage, Opened}
    /\ End(IF ok THEN "none" ELSE "failure")
    /\ UNCHANGED <<argv, asked, client, refused, accounts, todo, touched, failed, cached, printed>>

\* The sign-in of an account, which may fail, that is new or was there; the
\* first sync does not count for the exit code.
Add(port) ==
    /\ Ready("add") /\ storage \in {"opened", "created"}
    /\ LET accepted == Runtime(client) /\ BeginAuthorization(client, port)
       IN  /\ refused' = ~accepted
           /\ \/ End("failure") /\ UNCHANGED accounts
              \/ /\ accepted
                 /\ \E a \in Accounts :
                       accounts' = IF a \in Range(accounts) THEN accounts ELSE Append(accounts, a)
                 /\ End("success")
    /\ UNCHANGED <<argv, asked, client, storage, todo, touched, failed, cached, printed>>

List ==
    /\ Ready("list")
    /\ End(IF storage = "locked" THEN "failure" ELSE "success")
    /\ storage' = IF storage = "ready" THEN "opened" ELSE storage
    /\ UNCHANGED <<argv, asked, client, refused, accounts, todo, touched, failed, cached, printed>>

\* require_installation: without a directory or a key there is no account.
NotInstalled ==
    /\ \E verb \in {"remove", "sync", "inbox"} : Ready(verb)
    /\ storage \in {"absent", "locked"}
    /\ End("failure")
    /\ UNCHANGED <<argv, asked, client, refused, storage, accounts, todo, touched, failed, cached, printed>>

Open(verb) == Ready(verb) /\ storage = "ready" /\ storage' = "opened"

RemoveRefused ==
    /\ Open("remove")
    /\ End("failure")    \* no such account, or no runtime
    /\ refused' = (ResolveAccount(asked.name) # None /\ ~Runtime(client))
    /\ UNCHANGED <<argv, asked, client, accounts, todo, touched, failed, cached, printed>>

\* Whether the revocation was confirmed does not count for the exit code.
RemoveAccount(done) ==
    /\ Open("remove")
    /\ ResolveAccount(asked.name) # None /\ Runtime(client)
    /\ LET a == ResolveAccount(asked.name)
       IN  /\ touched' = {a}
           /\ failed' = IF done THEN {} ELSE {a}
           /\ accounts' = IF done THEN RemoveAt(accounts, CHOOSE i \in DOMAIN accounts : accounts[i] = a)
                        ELSE accounts
           /\ End(IF done THEN "success" ELSE "failure")
    /\ UNCHANGED <<argv, asked, client, refused, todo, cached, printed>>

\* There may be no runtime for want of an HTTP stack, too.
BeginSync(built) ==
    /\ Open("sync")
    /\ IF Targets = <<>> THEN End("success") /\ UNCHANGED <<todo, refused>>
       ELSE IF Targets # None /\ built /\ Runtime(client)
       THEN End("none") /\ todo' = Targets /\ UNCHANGED refused
       ELSE /\ End("failure") /\ UNCHANGED todo
            /\ refused' = (Targets # None /\ ~Runtime(client))
    /\ UNCHANGED <<argv, asked, client, accounts, touched, failed, cached, printed>>

\* (mutant of SyncExit: the outcome of the last account)
SyncExitOfLast(failures, last) == IF last \in failures THEN "failure" ELSE "success"

SyncExit(failures, last) == IF failures = {} THEN "success" ELSE "failure"

\* A failure does not stop the accounts after it.
SyncOne(ok) ==
    /\ Ready("sync") /\ storage = "opened" /\ todo # <<>>
    /\ ok => RefreshClientConfig(client)
    /\ refused' = (refused \/ ~RefreshClientConfig(client))
    /\ touched' = touched \cup {Head(todo)}
    /\ failed' = IF ok THEN failed ELSE failed \cup {Head(todo)}
    /\ todo' = Tail(todo)
    /\ End(IF todo' = <<>> THEN SyncExit(failed', Head(todo)) ELSE "none")
    /\ UNCHANGED <<argv, asked, client, storage, accounts, cached, printed>>

InboxRefused ==
    /\ Open("inbox")
    /\ End("failure")     \* no such account, or its mailbox cannot be read
    /\ UNCHANGED <<argv, asked, client, refused, accounts, todo, touched, failed, cached, printed>>

\* The mailbox gives the newest up to the limit (module MailboxStore).
Inbox(envelopes) ==
    /\ Open("inbox")
    /\ Shown # None
    /\ touched' = {Shown}
    /\ cached' = envelopes
    /\ printed' = [i \in 1..Len(envelopes) \cap 1..asked.limit |-> LineOf(envelopes[i])]
    /\ End("success")
    /\ UNCHANGED <<argv, asked, client, refused, accounts, todo, failed>>

\* It only looks.
Doctor ==
    /\ Ready("doctor")
    /\ End("success")
    /\ UNCHANGED <<argv, asked, client, refused, storage, accounts, todo, touched, failed, cached, printed>>

\* A line that is not understood does nothing, whatever there is: it is tried
\* where there is nothing.
RunNext ==
    \/ /\ mail = None /\ day = 0
       /\ UNCHANGED display
       /\ \/ /\ argv = None
             /\ \E words \in SeqOf(Words, MaxWords) :
                   (storage = "absent" \/ Parse(words) # None) /\ Main(words)
          \/ \E discovered \in BOOLEAN, file \in FileConfig, section, env \in ClientTexts :
                Load(discovered, file, section, env)
          \/ AddRefused \/ List \/ NotInstalled \/ Doctor
          \/ RemoveRefused \/ InboxRefused
          \/ \E port \in Ports : Add(port)
          \/ \E ok \in BOOLEAN : OpenForAdd(ok) \/ RemoveAccount(ok) \/ BeginSync(ok) \/ SyncOne(ok)
          \/ Ready("inbox") /\ \E envelopes \in Inboxes : Inbox(envelopes)
    \/ argv = None /\ storage = "absent" /\ DisplayNext /\ UNCHANGED run

RunSpec == RunInit /\ [][RunNext]_<<display, run>>

-----------------------------------------------------------------------------
(* Properties.                                                              *)

\* What a command line names, read off its words.
Named ==
    {argv[i] : i \in {j \in 2..Len(argv) :
                         /\ argv[j] # "--limit" /\ argv[j - 1] # "--limit"
                         /\ ~(argv[1] = "account" /\ j = 2)}}

\* A command works on no account but those its words single out - a shortened
\* name that fits two accounts singles out none - and without a name on all of
\* them or, to list mail, on one. Only `account add` makes an installation.
DoesWhatItNames ==
    /\ \A a \in touched : \A raw \in Named :
          a \in Accounts /\ IsPrefix(Spelling[raw], Spelling[a])
             /\ \A b \in Range(accounts) \ {a} : ~IsPrefix(Spelling[raw], Spelling[b])
    /\ touched # {} /\ Named = {} /\ argv[1] = "inbox" => touched = {accounts[1]}
    /\ storage = "created" => argv = <<"account", "add">>

\* The layers that validate the client, one after the other, the later ones
\* with the installation open, take the same ones: a client that is refused is
\* refused before there is key material, before sign-in begins and before any
\* account is tried.
ClientIsRefusedFirst ==
    refused => /\ touched = {}
               /\ asked.verb = "add" => storage \notin {"opened", "created"}

\* Success is the success of everything that was asked for: every account was
\* synced, the named one is gone, one that was added is there. A command line
\* that is not understood does nothing.
SuccessIsWhole ==
    /\ exit = "success" /\ asked.verb = "sync" /\ storage = "opened" =>
          /\ failed = {}
          /\ Named = {} => touched = Range(accounts)
          /\ Named # {} => touched # {}
    /\ exit = "success" /\ asked.verb = "remove" => touched \cap Range(accounts) = {} /\ touched # {}
    /\ exit = "success" /\ asked.verb = "add" => accounts # <<>>
    /\ exit = "usage" => touched = {} /\ storage \notin {"opened", "created"}

\* Each message is one line, whatever characters its sender chose: no line
\* break, no escape and no hidden character is written, the sender keeps to its
\* columns, and what needs no repair is written as it is.
OneLineEach ==
    exit = "success" /\ asked.verb = "inbox" =>
        /\ Len(printed) <= asked.limit
        /\ Len(printed) = Len(cached) \/ Len(printed) = asked.limit
        /\ \A i \in DOMAIN printed :
              /\ Range(printed[i].from) \cup Range(printed[i].subject) \subseteq {"x", "space", "..."}
              /\ Len(printed[i].from) <= Columns
              /\ Range(cached[i].from) \subseteq {"x"} /\ Len(cached[i].from) <= Columns
                    => printed[i].from = cached[i].from
=============================================================================
