---------------------------- MODULE MCPushToTalk ----------------------------
EXTENDS PushToTalk

\* The terminal stays open, the user speaks instead of typing, and the switch of
\* spoken answers is on.
OnlySpeaks == wsOpen /\ ~inputPending /\ autoTts

\* Bound: answers are spoken, drafts typed and switches moved while node01 shows
\* the event from before; with more events the user only speaks.
OneAtATime ==
  \/ seq = FirstEvent /\ available
  \/ OnlySpeaks /\ request = None /\ fetching = {} /\ sounding = {}
============================================================================
