---------------------------- MODULE Announcements ----------------------------
(***************************************************************************)
(* The announcements of one class: app/announcements/service.py and        *)
(* repository.py, and the fan-out of notify_announcement_posted in         *)
(* app/notifications/service.py.  Who is in the class is the business of   *)
(* another module and only read here.                                      *)
(*                                                                         *)
(* A post has a number, its _id, which the driver makes up; two posts may  *)
(* carry the same time, and then their _ids decide.  The dedup key of the  *)
(* fan-out is the post's fresh _id, so it lets every fan-out through.      *)
(* Contents are left out, and with them the edits that change nothing      *)
(* else.                                                                   *)
(***************************************************************************)
EXTENDS Integers, FiniteSets

CONSTANTS PostIds,          \* the _ids that may be made up: numbers
          PageSize,         \* limit of list_feed
          Times,            \* the times a post may carry
          MaxPins,          \* bound on the changes of pins
          MaxLost           \* bound on enqueues and post requests that fail

VARIABLES enrolled,     \* class_members of the class, of another module
          reps,         \* those of them whose role is rep
          posts,        \* announcements: the records by _id
          poster,       \* the post request that is under way
          reader,       \* one walk through the feed, page by page
          pushed,       \* history: to whom the push of a post was enqueued
          owed,         \* history: who was to get it when it was sent, less what faults took
          pins, lost

own == <<posts, poster, reader, pushed, owed, pins, lost>>
vars == <<enrolled, reps, own>>

Idle == [pc |-> "idle"]

Stored == DOMAIN posts

Sent == DOMAIN owed

Init ==
    /\ posts = <<>>
    /\ poster = Idle
    /\ reader = Idle
    /\ pushed = <<>>
    /\ owed = <<>>
    /\ pins = 0
    /\ lost = 0

With(f, k, v) == [j \in DOMAIN f \cup {k} |-> IF j = k THEN v ELSE f[j]]

-----------------------------------------------------------------------------
(***************************************************************************)
(* post: the time is read, the post is stored, the members are listed and  *)
(* all but the poster get a push, one enqueue after the other.  An enqueue *)
(* that fails is logged and forgotten.  The time is that of the API        *)
(* process, and the clocks of two processes need not agree: a later post   *)
(* may carry an earlier time.                                              *)
(***************************************************************************)
Post ==
    /\ poster = Idle
    /\ \E u \in reps, id \in PostIds \ Sent, now \in Times :
         /\ poster' = [pc |-> "store", by |-> u, id |-> id, at |-> now]
         /\ owed' = With(owed, id, enrolled \ {u})
         /\ pushed' = With(pushed, id, {})
    /\ UNCHANGED <<posts, reader, pins, lost>>

StorePost ==
    /\ poster.pc = "store"
    /\ posts' = With(posts, poster.id, [by |-> poster.by, at |-> poster.at, pinned |-> FALSE])
    /\ poster' = [pc |-> "list", by |-> poster.by, id |-> poster.id]
    /\ UNCHANGED <<reader, pushed, owed, pins, lost>>

RecipientsAll(by) == enrolled     \* slip: the poster is not left out

Recipients(by) == enrolled \ {by}

Enqueueing(todo) ==
    IF todo = {} THEN Idle ELSE [pc |-> "push", id |-> poster.id, todo |-> todo]

ListMembers ==
    /\ poster.pc = "list"
    /\ poster' = Enqueueing(Recipients(poster.by))
    /\ UNCHANGED <<posts, reader, pushed, owed, pins, lost>>

EnqueuePush ==
    /\ poster.pc = "push"
    /\ \E u \in poster.todo :
         /\ pushed' = [pushed EXCEPT ![poster.id] = @ \cup {u}]
         /\ poster' = Enqueueing(poster.todo \ {u})
    /\ UNCHANGED <<posts, reader, owed, pins, lost>>

Loses == lost < MaxLost /\ lost' = lost + 1

EnqueueFails ==
    /\ poster.pc = "push"
    /\ Loses
    /\ \E u \in poster.todo :
         /\ owed' = [owed EXCEPT ![poster.id] = @ \ {u}]
         /\ poster' = Enqueueing(poster.todo \ {u})
    /\ UNCHANGED <<posts, reader, pushed, pins>>

\* The request dies, or MongoDB fails it, and the rest of the fan-out is lost.
PostFails ==
    /\ poster # Idle
    /\ Loses
    /\ owed' = [owed EXCEPT ![poster.id] = {}]
    /\ poster' = Idle
    /\ UNCHANGED <<posts, reader, pushed, pins>>

-----------------------------------------------------------------------------
\* update: a rep pins or unpins a post.  (The walk that is under way need not
\* show the post then.)
UpdatePin ==
    /\ pins < MaxPins
    /\ pins' = pins + 1
    /\ \E id \in Stored :
         /\ posts' = [posts EXCEPT ![id].pinned = ~@]
         /\ reader' = IF reader = Idle THEN reader ELSE [reader EXCEPT !.due = @ \ {id}]
    /\ UNCHANGED <<poster, pushed, owed, lost>>

(***************************************************************************)
(* list_feed: the first call reads the pinned posts and then a page of the *)
(* others; the later ones read the page that follows their cursor, which   *)
(* is the time and the _id of the last post of a full page.  A reader has  *)
(* the posts shown on its pages, those of them that a page showed again,   *)
(* and those due: there when it began, and not pinned or unpinned since.   *)
(***************************************************************************)
Pinned == {id \in Stored : posts[id].pinned}

Unpinned == Stored \ Pinned

\* The order of the feed: the newest first.
NewerThan(i, j) ==
    posts[i].at > posts[j].at \/ (posts[i].at = posts[j].at /\ i > j)

BeforeByTime(id, cursor) == posts[id].at < cursor.at   \* slip: the cursor is the time alone

Before(id, cursor) ==
    posts[id].at < cursor.at \/ (posts[id].at = cursor.at /\ id < cursor.id)

NoCursor == [none |-> TRUE]

\* sort and limit: the newest PageSize of what the query finds.
Page(cursor) ==
    LET rest == {id \in Unpinned : cursor = NoCursor \/ Before(id, cursor)}
    IN {id \in rest : Cardinality({j \in rest : NewerThan(j, id)}) < PageSize}

Last(page) == CHOOSE i \in page : \A j \in page \ {i} : NewerThan(j, i)

Cursor(page) ==
    IF Cardinality(page) < PageSize THEN NoCursor
    ELSE [at |-> posts[Last(page)].at, id |-> Last(page)]

ListPinned ==
    /\ reader = Idle
    /\ reader' = [pc |-> "page", cursor |-> NoCursor, top |-> Pinned, shown |-> {},
                  again |-> {}, due |-> Stored]
    /\ UNCHANGED <<posts, poster, pushed, owed, pins, lost>>

ListPage ==
    LET page == Page(reader.cursor) IN
    /\ reader.pc = "page"
    /\ reader' = [reader EXCEPT !.pc = IF Cursor(page) = NoCursor THEN "end" ELSE "page",
                                !.cursor = Cursor(page),
                                !.shown = @ \cup page,
                                !.again = @ \cup (reader.shown \cap page)]
    /\ UNCHANGED <<posts, poster, pushed, owed, pins, lost>>

Step ==
    \/ Post \/ StorePost \/ ListMembers \/ EnqueuePush \/ EnqueueFails \/ PostFails
    \/ UpdatePin \/ ListPinned \/ ListPage

Next == Step /\ UNCHANGED <<enrolled, reps>>

-----------------------------------------------------------------------------
(***************************************************************************)
(* A walk through the feed shows no post twice among the unpinned ones,    *)
(* and when it ends it has shown every post that was there when it began   *)
(* and that was neither pinned nor unpinned meanwhile: posts that arrive   *)
(* during the walk, or carry the same time, shift no page.                 *)
(***************************************************************************)
WalkComplete ==
    reader # Idle =>
      /\ reader.again = {}
      /\ reader.pc = "end" => reader.due \subseteq reader.top \cup reader.shown

(***************************************************************************)
(* The pushes of a post go to members only and never to its poster; when   *)
(* the request is over, whoever was in the class when it came has one,     *)
(* unless an enqueue or the request failed.                                *)
(***************************************************************************)
PushesRight ==
    /\ \A id \in Stored : pushed[id] \subseteq enrolled \ {posts[id].by}
    /\ \A id \in Sent :
         poster = Idle \/ poster.id # id => owed[id] \subseteq pushed[id]
=============================================================================
