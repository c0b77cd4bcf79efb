---------------------------- MODULE AuthRuntime ----------------------------
(***************************************************************************)
(* AUTH_RUNTIME_MODE (server/auth-runtime.ts) is read when the server      *)
(* starts: accounts are those of AuthCutover in the legacy mode and those  *)
(* of UserAccess in the canonical one, and what belongs to the other mode  *)
(* stays as it is.                                                         *)
(***************************************************************************)
EXTENDS UserAccess

CONSTANTS
    LegacyAdmins, LegacyBarbers, LegacyUsers, LegacyInvites,
    LegacyEmails, LegacyNames,
    LegacyOps, WholeRecords,
    LegacyInstallations,
    LegacyMaxRequests, MaxBackfills   \* bounds

VARIABLES mode, db, barberInvites, requests, backfill, received, runs, reverted
legacyVars == <<db, barberInvites, requests, backfill, received, runs, reverted>>

Legacy == INSTANCE AuthCutover WITH
    Admins <- LegacyAdmins, Barbers <- LegacyBarbers, Users <- LegacyUsers,
    Invites <- LegacyInvites, Emails <- LegacyEmails, Names <- LegacyNames,
    Clients <- Browsers, Ops <- LegacyOps, Installations <- LegacyInstallations,
    MaxRequests <- LegacyMaxRequests,
    invites <- barberInvites, req <- requests, begun <- received

ASSUME LegacyAssumption == Legacy!CutoverAssumption

RuntimeInit == mode \in {"legacy", "canonical"} /\ Init /\ Legacy!Init
RuntimeNext ==
    /\ UNCHANGED mode
    /\ \/ mode = "canonical" /\ Next /\ UNCHANGED legacyVars
       \/ mode = "legacy" /\ Legacy!Next /\ UNCHANGED vars
Runtime == RuntimeInit /\ [][RuntimeNext]_<<vars, legacyVars, mode>>

-----------------------------------------------------------------------------
\* See AuthCutover: what was given an email before it was changed opens nothing after
\* (storage.ts:908), whatever invites, changes, resets and acceptances interleave.
OnlyAStaleEditKeepsAccess == mode = "legacy" => Legacy!OnlyAStaleEditKeepsAccess
\* See AuthCutover: the dry run of auth:backfill agrees with what --apply does.
ApplyDoesWhatTheDryRunSaid == mode = "legacy" => Legacy!ApplyDoesWhatTheDryRunSaid
\* See AuthCutover: READY means that every login survives the change of mode.
ReadyKeepsLogins == mode = "legacy" => Legacy!ReadyKeepsLogins
\* See AuthCutover: the backfill links a record to a user with its password and identifier.
LinkedAsTheyAre == Legacy!LinkedAsTheyAre
=============================================================================
