--------------------------- MODULE CommitRegister ---------------------------
(***************************************************************************)
(* What the recovery lease promises, with no files in it: a register that  *)
(* holds the last safe conversation boundary.  A commit is requested, and  *)
(* later either takes effect at once or leaves the register alone; the     *)
(* side-effects flag only ever rises between two Idle boundaries.          *)
(***************************************************************************)
CONSTANTS Convs,     \* conversations that can be saved
          Drafts,    \* unsent inputs saved beside a conversation
          NoDraft,   \* no draft was saved
          Nothing    \* no boundary was ever committed

VARIABLES saved,     \* the boundary a recovery would restore
          flag,      \* may a tool have had side effects since the Idle boundary
          req,       \* the commit in progress, or Nothing
          open       \* the owner still holds the lease

absVars == <<saved, flag, req, open>>

Boundary == [conv : Convs, draft : Drafts \cup {NoDraft}]
Request  == [conv : Convs, draft : Drafts \cup {NoDraft}, idle : BOOLEAN]

AInit == /\ saved = Nothing
         /\ flag = FALSE
         /\ req = Nothing
         /\ open = TRUE

Ask == /\ open /\ req = Nothing
       /\ req' \in Request
       /\ UNCHANGED <<saved, flag, open>>

\* A commit publishes the conversation and the draft of ONE request together.
Commit == /\ open /\ req # Nothing
          /\ saved' = [conv |-> req.conv, draft |-> req.draft]
          /\ flag' = IF req.idle THEN FALSE ELSE flag
          /\ req' = Nothing
          /\ UNCHANGED open

\* A failed commit leaves the previous boundary authoritative.
Abort == /\ open /\ req # Nothing
         /\ req' = Nothing
         /\ UNCHANGED <<saved, flag, open>>

Raise == /\ open /\ flag' = TRUE
         /\ UNCHANGED <<saved, req, open>>

\* A clean exit gives the boundary up.
Close == /\ open /\ open' = FALSE
         /\ saved' = Nothing /\ flag' = FALSE /\ req' = Nothing

ANext == Ask \/ Commit \/ Abort \/ Raise \/ Close

ASpec == AInit /\ [][ANext]_absVars
=============================================================================
