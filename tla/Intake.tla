------------------------------- MODULE Intake -------------------------------
(***************************************************************************)
(* How a request becomes an intent of the kernel: the admission of a shell *)
(* (moxi-shells), the normalised entry (moxi-entry), the trust checks of   *)
(* the gateway (moxi-gateway) and the compiled intent (moxi-intent), each  *)
(* a function of the request and of what the step keeps.                   *)
(*                                                                         *)
(* A text is a sequence of words and blanks.  What the code looks for      *)
(* inside a word is given by the sets of words in which it finds it.       *)
(***************************************************************************)
EXTENDS Lists, SequencesExt

CONSTANTS
    SecretWords,     \* words that begin with a secret marker
    ReadWords,       \* words with "read", "open", "show" or "inspect" in them
    HighWords,       \* words with "delete", "overwrite" or "execute" in them
    NetworkWords,    \* words with "network" or "http" in them
    EffectCapabilities,   \* capabilities with "write" or "shell" in the name
    NetworkCapabilities,  \* capabilities with "network" in the name
    BlockedTerms,    \* texts the gateway does not admit in a goal
    AllowedTenants,  \* empty: all of them
    BlockedUsers,
    MaxGoal,         \* words and blanks stand for characters
    MaxRequests

Low == 0
Medium == 1
High == 2
RiskLevels == 0 .. 3

Blank == " "
Redacted == "[REDACTED_SECRET]"
FileRead == <<"file.read">>

\* Words (the provers are not told that a literal is a string) that do not
\* begin with a marker.
ASSUME IntakeAssumption == {Blank, Redacted} \subseteq STRING \ SecretWords

-----------------------------------------------------------------------------
\* Texts.

Texts == Seq(STRING)

Trim(text) ==
    LET kept == {i \in DOMAIN text : text[i] # Blank}
    IN  IF kept = {} THEN << >> ELSE SubSeq(text, Min(kept), Max(kept))

IsBlank(text) == Trim(text) = << >>

Occurs(term, text) ==
    \E i \in 0 .. Len(text) - Len(term) : SubSeq(text, i + 1, i + Len(term)) = term

HasWord(words, text) == words \cap ToSet(text) # {}

\* The words of a text, one blank between each two of them.
Join(words) == [i \in 1 .. 2 * Len(words) - 1 |-> IF i % 2 = 1 THEN words[(i + 1) \div 2] ELSE Blank]

\* The first occurrence of every element.
Distinct(s) == Picked(s, {i \in DOMAIN s : \A j \in 1 .. i - 1 : s[j] # s[i]})

Trimmed(capabilities) == Distinct([i \in DOMAIN capabilities |-> Trim(capabilities[i])])

AnyBlank(texts) == \E text \in ToSet(texts) : IsBlank(text)

-----------------------------------------------------------------------------
\* Shells.

SupportedModes(surface) ==
    IF surface \in {"Api", "Ide", "Desktop"} THEN {"ReadOnly", "WorkspaceWrite"} ELSE {"ReadOnly"}

DefaultProfile(surface) ==
    CASE surface = "Cli" -> "shell.cli.fast"
      [] surface = "DigitalHuman" -> "shell.digital_human.readonly"
      [] OTHER -> "shell.ide.readonly"

ChannelOf(surface) ==
    CASE surface \in {"Ide", "Desktop", "DigitalHuman"} -> "Desktop"
      [] surface \in {"Web", "Mobile"} -> "Web"
      [] surface = "Api" -> "HttpApi"
      [] surface = "Mcp" -> "McpServer"
      [] OTHER -> "Cli"

CompatibleProfiles(surface) ==
    CASE surface = "Cli" -> {"shell.cli.fast"}
      [] surface = "DigitalHuman" -> {"shell.digital_human.readonly"}
      [] surface \in {"Mcp", "Api"} -> {"shell.ide.readonly", "shell.trusted.review"}
      [] OTHER -> {"shell.ide.readonly", "shell.digital_human.readonly", "shell.trusted.review"}

CompatibleChannels(surface) ==
    CASE surface = "Ide" -> {"Desktop", "Sdk"}
      [] surface \in {"Web", "Mobile"} -> {"Web", "HttpApi"}
      [] surface = "Api" -> {"HttpApi", "Sdk"}
      [] surface = "DigitalHuman" -> {"Desktop", "Web"}
      [] OTHER -> {ChannelOf(surface)}

NoProfile == "none"

RequestedProfile(draft) ==
    IF draft.profile_id = NoProfile THEN DefaultProfile(draft.surface) ELSE draft.profile_id

ShellAccepts(draft, profile) ==
    /\ profile.profile_id \in CompatibleProfiles(draft.surface)
    /\ draft.permission_mode \in SupportedModes(draft.surface)
    /\ ChannelOf(draft.surface) \in CompatibleChannels(draft.surface)

\* What a shell can only submit: the trusted core has to approve it.
NeedsTrustedPath(entry) ==
    entry.risk_level >= High \/ entry.permission_mode \in {"Networked", "Privileged"}

-----------------------------------------------------------------------------
\* Entry.

EntryIsWhole(draft) ==
    /\ ~AnyBlank(<<draft.tenant_id, draft.user_id, draft.workspace_root, draft.goal>>)
    /\ ~AnyBlank(draft.requested_capabilities)

Normalized(draft) ==
    [tenant_id |-> draft.tenant_id, user_id |-> draft.user_id,
     channel |-> ChannelOf(draft.surface), workspace_root |-> draft.workspace_root,
     permission_mode |-> draft.permission_mode, risk_level |-> draft.risk_level,
     budget |-> draft.budget, goal |-> Trim(draft.goal),
     requested_capabilities |-> Trimmed(draft.requested_capabilities)]

-----------------------------------------------------------------------------
\* Gateway.

\* One string is made of both names.
Principal(entry) == entry.tenant_id \o <<":">> \o entry.user_id

Reasons(entry, count) ==
    {r \in {"tenant", "user", "size", "limit", "term"} :
        \/ r = "tenant" /\ AllowedTenants # {} /\ entry.tenant_id \notin AllowedTenants
        \/ r = "user" /\ entry.user_id \in BlockedUsers
        \/ r = "size" /\ Len(entry.goal) > MaxGoal
        \/ r = "limit" /\ count >= MaxRequests
        \/ r = "term" /\ \E term \in BlockedTerms : Occurs(term, entry.goal)}

Charged(count) == IF count >= MaxRequests THEN count ELSE count + 1

Redact(goal) ==
    LET words == Picked(goal, {i \in DOMAIN goal : goal[i] # Blank})
    IN  Join([i \in DOMAIN words |-> IF words[i] \in SecretWords THEN Redacted ELSE words[i]])

\* A redaction makes the risk Medium at least.
Trusted(entry) ==
    [entry EXCEPT !.goal = Redact(@),
                  !.risk_level = IF HasWord(SecretWords, entry.goal) THEN Max({@, Medium}) ELSE @]

-----------------------------------------------------------------------------
\* Intent.

CompiledCapabilities(entry) ==
    IF entry.requested_capabilities = << >> /\ HasWord(ReadWords, entry.goal)
    THEN <<FileRead>>
    ELSE Trimmed(entry.requested_capabilities)

InferredRisk(goal, capabilities) ==
    IF HasWord(HighWords, goal) \/ EffectCapabilities \cap ToSet(capabilities) # {} THEN High
    ELSE IF HasWord(NetworkWords, goal) \/ NetworkCapabilities \cap ToSet(capabilities) # {} THEN Medium
    ELSE Low

AtLeastOne(budget) ==
    [f \in DOMAIN budget |-> IF f = "max_cost_cents" THEN budget[f] ELSE Max({budget[f], 1})]

Compiled(entry) ==
    LET capabilities == CompiledCapabilities(entry)
    IN  [tenant_id |-> entry.tenant_id, user_id |-> entry.user_id, goal |-> Trim(entry.goal),
         requested_capabilities |-> capabilities, permission_mode |-> entry.permission_mode,
         risk_level |-> Max({entry.risk_level, InferredRisk(entry.goal, capabilities)}),
         budget |-> AtLeastOne(entry.budget)]

CanCompile(entry) == ~IsBlank(entry.goal) /\ ~AnyBlank(entry.requested_capabilities)
=============================================================================
