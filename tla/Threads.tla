-------------------------------- MODULE Threads -----------------------------
(***************************************************************************)
(* The features in which people write to each other: conversations, and    *)
(* the comments under a post or an itinerary.  Groups, whose members do so *)
(* too, come with it under the names they have.                            *)
(***************************************************************************)
EXTENDS Groups, Sequences, FiniteSets

CONSTANTS
  People, Convs, MaxMessages, PageSize, TalkActs,
  Comments, Likes, ThreadActs

VARIABLES
  made, paired, opening, thread, post, talkPage, reply, older, socket, talkActs,
  talkMissed, crossed, twice,
  kind, threadRows, liked, threadScreen, threadCount, add, threadLikes, deletes,
  threadQuery, threadActs, threadSlips

-----------------------------------------------------------------------------
(* The features *)

Talk == INSTANCE Conversations WITH
    page <- talkPage, acts <- talkActs, missed <- talkMissed, MaxActs <- TalkActs,
    NoConv <- None

Thread == INSTANCE CommentThread WITH
    rows <- threadRows, screen <- threadScreen, count <- threadCount,
    likes <- threadLikes, query <- threadQuery, acts <- threadActs,
    slips <- threadSlips, MaxActs <- ThreadActs

\* Messages and comments are numbered in the order in which they are written; there may
\* be a message, and a reply to the query of a conversation holds at least one.
ASSUME NumbersAssumption ==
  /\ MaxMessages \in Nat \ {0} /\ PageSize \in Nat \ {0}
  /\ Comments \subseteq Nat /\ 1 \in Comments

-----------------------------------------------------------------------------
(* Their variables, and what these are when another feature is chosen *)

talkVars == <<made, paired, opening, thread, post, talkPage, reply, older, socket,
    talkActs, talkMissed, crossed, twice>>
threadVars == <<kind, threadRows, liked, threadScreen, threadCount, add, threadLikes,
    deletes, threadQuery, threadActs, threadSlips>>

TalkRests ==
  /\ made = 0 /\ paired = 0 /\ opening = 0 /\ thread = 0 /\ post = 0
  /\ talkPage = 0 /\ reply = 0 /\ older = 0 /\ socket = 0 /\ talkActs = 0
  /\ talkMissed = 0 /\ crossed = 0 /\ twice = 0

ThreadRests ==
  /\ kind = 0 /\ threadRows = 0 /\ liked = 0 /\ threadScreen = 0 /\ threadCount = 0
  /\ add = 0 /\ threadLikes = 0 /\ deletes = 0 /\ threadQuery = 0 /\ threadActs = 0
  /\ threadSlips = 0
=============================================================================
