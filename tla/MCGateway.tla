-------------------------------- MODULE MCGateway --------------------------------
(* The parts around a request.  They share no state, so each behaviour is   *)
(* one of a single part, which "part" names; the others rest at their start. *)
EXTENDS TokenBuckets, SlidingWindow, Accounts, ResponseCache, Completions, Conversations, LoginSessions

\* Two requests to a minute of two ticks, and time for two buckets to be
\* dropped, the second in the minute that is looked at.
MCTiers == {"basic"}
MCLimit == [t \in MCTiers |-> 2]

\* One server's clock is a tick ahead of the other's.
MCServers == {"one", "two"}
MCAhead == [s \in MCServers |-> IF s = "one" THEN 0 ELSE 1]

\* One address in two spellings, and one of a user who is there already and
\* has the name that others would like.
Alice == [local |-> "alice", host |-> "mail", capitals |-> FALSE]
Bob == [Alice EXCEPT !.local = "bob"]
MCAddresses == {Alice, [Alice EXCEPT !.capitals = TRUE]}
MCUserNames == {LocalPart(Alice), LocalPart(Bob)}
MCExisting == {[id |-> 1, email |-> Bob, name |-> LocalPart(Alice), link |-> NoIdentity, active |-> TRUE, edited |-> FALSE]}

\* A user of Google, one of GitHub who shows no address, and an error.
MCProfiles == {
  [at |-> "google", link |-> "google 1", email |-> [Alice EXCEPT !.capitals = TRUE], login |-> NoName, emails |-> <<>>],
  [at |-> "github", link |-> "github 1", email |-> NoAddress, login |-> LocalPart(Alice),
   emails |-> <<[email |-> Alice, primary |-> FALSE], [email |-> Bob, primary |-> TRUE]>>],
  [at |-> "github", link |-> "github ?", email |-> NoAddress, login |-> NoName, emails |-> <<>>]}

\* An identity of somebody else, with an address; a name; a second thought.
MCUpdates == {[link |-> "google 1", email |-> [Alice EXCEPT !.capitals = TRUE]], [name |-> LocalPart(Bob)], [active |-> TRUE]}
MCLives == {Never, 3}

\* A path with two matching prefixes, one without, one that is skipped.
MCPaths == {<<"metrics", "cost">>, <<"models">>, <<"chat", "stats">>}
MCSkipRoutes == {<<"chat">>}
MCRouteTTLs == [p \in {<<"metrics">>, <<"metrics", "cost">>} |-> Len(p) - 1]

\* One model of each provider; "local" takes the way of "openai".
Gpt4 == <<"gpt", "4">>
Opus == <<"claude", "3", "opus">>
MCModels == {Gpt4, Opus}
MCProviderOf == [m \in MCModels |-> IF m = Opus THEN "anthropic" ELSE "openai"]
MCPrice == [m \in MCModels |-> IF m = Opus THEN 2 ELSE 1]

\* Both keys are configured, or for a chat perhaps none.
MCConfigured(p) == IF p = "chat" THEN {{}, {"openai", "anthropic"}} ELSE {{"openai", "anthropic"}}

\* A conversation is not followed once it is renamed, which changes nothing
\* but its title, or when the last call has its answer.
FollowedChat ==
  /\ row.title # "renamed"
  /\ \A s \in Senders : send[s].call = MaxSends => send[s].pc # "stampAssistant"

\* Two of whatever comes twice: callers, handlers, requests, senders, visitors.
CONSTANTS x, y
Two == {x, y}
Interchangeable == Permutations(Two)

VARIABLE part

gatewayVars == <<part, apiKeys, bucketVars, windowVars, accountVars, responseVars, completionVars, chatVars, sessionVars>>

Init ==
  /\ part \in {"buckets", "window", "accounts", "responses", "completions", "chat", "sessions"}
  /\ \E configured \in MCConfigured(part) : NewProvider(configured)
  /\ NoEntries /\ EmptyWindow /\ NoAccounts /\ EmptyResponses /\ NoCompletions /\ NewConversation /\ NoSessions

Next ==
  \/ part = "buckets" /\ BucketsNext
     /\ UNCHANGED <<part, apiKeys, windowVars, accountVars, responseVars, completionVars, chatVars, sessionVars>>
  \/ part = "window" /\ WindowNext
     /\ UNCHANGED <<part, apiKeys, bucketVars, accountVars, responseVars, completionVars, chatVars, sessionVars>>
  \/ part = "accounts" /\ AccountsNext
     /\ UNCHANGED <<part, apiKeys, bucketVars, windowVars, responseVars, completionVars, chatVars, sessionVars>>
  \/ part = "responses" /\ ResponsesNext
     /\ UNCHANGED <<part, apiKeys, bucketVars, windowVars, accountVars, completionVars, chatVars, sessionVars>>
  \/ part = "completions" /\ CompletionsNext
     /\ UNCHANGED <<part, apiKeys, bucketVars, windowVars, accountVars, responseVars, chatVars, sessionVars>>
  \/ part = "chat" /\ ChatNext
     /\ UNCHANGED <<part, apiKeys, bucketVars, windowVars, accountVars, responseVars, completionVars, sessionVars>>
  \/ part = "sessions" /\ SessionsNext
     /\ UNCHANGED <<part, apiKeys, bucketVars, windowVars, accountVars, responseVars, completionVars, chatVars>>

Spec == Init /\ [][Next]_gatewayVars
================================================================================
