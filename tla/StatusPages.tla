------------------------------ MODULE StatusPages ------------------------------
(***************************************************************************)
(* Public status pages: the pages themselves, the components they show,    *)
(* the subscribers who confirm an address and choose components, and the   *)
(* announcements mailed to them (api/statuspage.go, admin_status.go,       *)
(* phase23.go, the store, and SendStatusPageAnnouncement).                 *)
(*                                                                         *)
(* An announcement is inserted, the subscribers are listed, and a          *)
(* goroutine mails them one by one, while others confirm, unsubscribe and  *)
(* delete components.  ChannelDelivery models one mail.  Names, colours,   *)
(* groups and positions are left out.                                      *)
(***************************************************************************)
EXTENDS Integers, FiniteSets

CONSTANTS
  PageIds, Slugs, Domains, NoDomain,   \* pages and what identifies them
  Components,                          \* components of the page, all live at first
  LinkedComponents,                    \* those that show the monitor that fails
  Emails, Announcements

ASSUME StatusPagesAssumption == NoDomain \in Domains /\ LinkedComponents \subseteq Components

VARIABLES
  pages,       \* [PageIds -> [stage, slug, domain, verified, published, public, autoUpdates]]
  liveComps,   \* components that have not been deleted
  subs,        \* [Emails -> [stage, wants, chose]]: the row, and the choice made
  anns,        \* [Announcements -> [stage, about, list]]
  mailed,      \* [Announcements -> SUBSET Emails]
  emailOn,     \* whether an enabled channel can send mail
  steady,      \* [Announcements -> emails confirmed since before the announcement]
  since        \* [Announcements -> emails confirmed at some time since then]

pagesVars == <<pages, liveComps, subs, anns, mailed, emailOn, steady, since>>
mail == <<liveComps, subs, anns, mailed, emailOn, steady, since>>

NoPage == [stage |-> "unused", slug |-> "", domain |-> NoDomain, verified |-> FALSE,
           published |-> FALSE, public |-> FALSE, autoUpdates |-> FALSE]
NoSub == [stage |-> "none", wants |-> {}, chose |-> {}]
NoAnn == [stage |-> "unused", about |-> {}, list |-> {}]

------------------------------------------------------------------------------
(* Pages. *)

LivePages == {g \in PageIds : pages[g].stage = "live"}

\* Both slug and domain have a unique index over all organisations; a page
\* without a domain stores an empty one, so that there is room for one such page.
Unique(g, slug, domain) ==
  \A h \in LivePages \ {g} : pages[h].slug # slug /\ pages[h].domain # domain

\* The handler passes neither autoUpdates nor public; the store sets public
\* along with published.
CreateStatusPage(g, slug, domain, published) ==
  /\ pages[g].stage = "unused"
  /\ Unique(g, slug, domain)
  /\ pages' = [pages EXCEPT ![g] = [stage |-> "live", slug |-> slug, domain |-> domain, verified |-> FALSE,
                                    published |-> published, public |-> published, autoUpdates |-> FALSE]]
  /\ UNCHANGED mail

UpdateStatusPage(g, page) ==
  /\ g \in LivePages
  /\ Unique(g, page.slug, page.domain)
  /\ pages' = [pages EXCEPT ![g] = [stage |-> "live", slug |-> page.slug, domain |-> page.domain,
                                    verified |-> page.verified, autoUpdates |-> page.autoUpdates,
                                    published |-> page.published \/ page.public,
                                    public |-> page.public \/ page.published]]
  /\ UNCHANGED mail

\* Components, subscribers and announcements of the page stay behind.
DeleteStatusPage(g) ==
  /\ g \in LivePages
  /\ pages' = [pages EXCEPT ![g] = [NoPage EXCEPT !.stage = "gone"]]
  /\ UNCHANGED mail

GetStatusPageBySlug(slug) ==
  {g \in LivePages : pages[g].slug = slug /\ (pages[g].published \/ pages[g].public)}
GetStatusPageByDomain(domain) ==
  {g \in LivePages : /\ domain # NoDomain
                     /\ pages[g].domain = domain /\ pages[g].verified
                     /\ pages[g].published \/ pages[g].public}

\* lookupPublishedPage: by the slug in the path, or else by the host.
LookupPublishedPage(slug, host) ==
  IF slug # "" THEN {g \in GetStatusPageBySlug(slug) : pages[g].published}
  ELSE {g \in GetStatusPageByDomain(host) : pages[g].published}

\* A request is answered with one page at most, by the slug or by the host, and
\* one page answers to its slug whenever it answers to its host; no page is found
\* by its slug that is not marked as published and public.
PagesAnswer ==
  /\ \A slug \in Slugs : Cardinality(LookupPublishedPage(slug, NoDomain)) <= 1
  /\ \A host \in Domains :
       LET found == LookupPublishedPage("", host)
       IN  /\ Cardinality(found) <= 1
           /\ \A g \in found : g \in LookupPublishedPage(pages[g].slug, host)
  /\ \A g \in LivePages : pages[g].published <=> pages[g].public

------------------------------------------------------------------------------
(* Subscribers of one page, which is there and published. *)

\* A second subscription of an address breaks the unique index; a component that
\* is gone refuses the whole request.
Subscribe(e, wants) ==
  /\ subs[e].stage = "none"
  /\ wants \subseteq liveComps
  /\ subs' = [subs EXCEPT ![e] = [stage |-> "pending", wants |-> wants, chose |-> wants]]
  /\ UNCHANGED <<pages, liveComps, anns, mailed, emailOn, steady, since>>

\* The token may be used again, to no effect but the time.
Confirm(e) ==
  /\ subs[e].stage \in {"pending", "confirmed"}
  /\ subs' = [subs EXCEPT ![e].stage = "confirmed"]
  /\ since' = [a \in Announcements |-> IF anns[a].stage = "inserted" THEN since[a] \union {e} ELSE since[a]]
  /\ UNCHANGED <<pages, liveComps, anns, mailed, emailOn, steady>>

Unsubscribe(e) ==
  /\ subs[e].stage \in {"pending", "confirmed"}
  /\ subs' = [subs EXCEPT ![e] = [NoSub EXCEPT !.stage = "gone"]]
  /\ steady' = [a \in Announcements |-> steady[a] \ {e}]
  /\ UNCHANGED <<pages, liveComps, anns, mailed, emailOn, since>>

\* The links to subscribers and announcements go with the component.
DeleteStatusPageComponent(c) ==
  /\ c \in liveComps
  /\ liveComps' = liveComps \ {c}
  /\ subs' = [e \in Emails |-> [subs[e] EXCEPT !.wants = @ \ {c}]]
  /\ UNCHANGED <<pages, anns, mailed, emailOn, steady, since>>

------------------------------------------------------------------------------
(* Announcements. *)

Confirmed == {e \in Emails : subs[e].stage = "confirmed"}

CreateStatusPageAnnouncement(a, about) ==
  /\ anns[a].stage = "unused"
  /\ about \subseteq liveComps
  /\ anns' = [anns EXCEPT ![a] = [stage |-> "inserted", about |-> about, list |-> {}]]
  /\ steady' = [steady EXCEPT ![a] = Confirmed]
  /\ since' = [since EXCEPT ![a] = Confirmed]
  /\ UNCHANGED <<pages, liveComps, subs, mailed, emailOn>>

\* A draft is stored and mailed to nobody, then or later.
CreateDraft(a, about) ==
  /\ anns[a].stage = "unused"
  /\ about \subseteq liveComps
  /\ anns' = [anns EXCEPT ![a] = [stage |-> "draft", about |-> about, list |-> {}]]
  /\ UNCHANGED <<pages, liveComps, subs, mailed, emailOn, steady, since>>

\* AutoCreateStatusPageIncidentUpdate names one component of the page that shows
\* the monitor, and mails nobody.
AutoCreateStatusPageIncidentUpdate(a) ==
  /\ anns[a].stage = "unused"
  /\ \E c \in LinkedComponents \intersect liveComps :
       anns' = [anns EXCEPT ![a] = [stage |-> "auto", about |-> {c}, list |-> {}]]
  /\ UNCHANGED <<pages, liveComps, subs, mailed, emailOn, steady, since>>

\* The rows as they are listed; the announcement keeps the components it was
\* created with.
ListStatusPageSubscribers(a) ==
  /\ anns[a].stage = "inserted"
  /\ anns' = [anns EXCEPT ![a].stage = "listed",
                          ![a].list = {[email |-> e, confirmed |-> subs[e].stage = "confirmed", wants |-> subs[e].wants]
                                       : e \in {x \in Emails : subs[x].stage \in {"pending", "confirmed"}}}]
  /\ UNCHANGED <<pages, liveComps, subs, mailed, emailOn, steady, since>>

\* subscriberMatchesAnnouncement: no components on either side means all.
SubscriberMatches(wants, about) == wants = {} \/ about = {} \/ wants \intersect about # {}

\* Mutant: addresses that were never confirmed are mailed too.
AddresseesUnconfirmed(a) == {s.email : s \in {x \in anns[a].list : SubscriberMatches(x.wants, anns[a].about)}}

\* Those of the list the goroutine will mail.
Addressees(a) == {s.email : s \in {x \in anns[a].list : x.confirmed /\ SubscriberMatches(x.wants, anns[a].about)}}

\* The goroutine reads the channels once.
StartSending(a) ==
  /\ anns[a].stage = "listed"
  /\ anns' = [anns EXCEPT ![a].stage = IF emailOn THEN "sending" ELSE "silent"]
  /\ UNCHANGED <<pages, liveComps, subs, mailed, emailOn, steady, since>>

MailOne(a) ==
  /\ anns[a].stage = "sending"
  /\ \E e \in Addressees(a) \ mailed[a] : mailed' = [mailed EXCEPT ![a] = @ \union {e}]
  /\ UNCHANGED <<pages, liveComps, subs, anns, emailOn, steady, since>>

SendingEnds(a) ==
  /\ anns[a].stage = "sending" /\ Addressees(a) \subseteq mailed[a]
  /\ anns' = [anns EXCEPT ![a].stage = "sent"]
  /\ UNCHANGED <<pages, liveComps, subs, mailed, emailOn, steady, since>>

\* A failing list, or a process that stops: nothing takes the work up again.
SendingStops(a) ==
  /\ anns[a].stage \in {"inserted", "listed", "sending"}
  /\ anns' = [anns EXCEPT ![a].stage = "stopped"]
  /\ UNCHANGED <<pages, liveComps, subs, mailed, emailOn, steady, since>>

ChannelToggled ==
  /\ emailOn' = ~emailOn
  /\ UNCHANGED <<pages, liveComps, subs, anns, mailed, steady, since>>

------------------------------------------------------------------------------
(* What a page shows of a component: [manual, ofService, linked], the statuses *)
(* of the monitors of its service and of those linked to it.                   *)

ShownStatuses == {"up", "degraded", "down"}
StatusRank(s) == CASE s = "degraded" -> 1 [] s = "down" -> 2 [] OTHER -> 0
WorstStatus(all) == IF "down" \in all THEN "down" ELSE IF "degraded" \in all THEN "degraded" ELSE "up"

\* The store's componentStatus, of PublicStatusPage.
ComponentStatus(c) == IF c.manual # "" THEN c.manual ELSE WorstStatus(c.ofService \union c.linked)

\* renderStatusPageView, of the HTML page and its summary.json, looks at the
\* linked monitors only.
RenderedStatus(c) ==
  IF c.linked = {} THEN "up" ELSE CHOOSE s \in c.linked : \A t \in c.linked : StatusRank(t) <= StatusRank(s)

\* The two differ where a manual status hides the monitors, or where the
\* service's monitors are worse than the linked ones, and nowhere else.
ComponentViewsAgree(c) ==
  ComponentStatus(c) # RenderedStatus(c) <=>
    IF c.manual # "" THEN c.manual # WorstStatus(c.linked)
    ELSE \E s \in c.ofService : \A t \in c.linked \union {"up"} : StatusRank(t) < StatusRank(s)

------------------------------------------------------------------------------
StatusInit ==
  /\ pages = [g \in PageIds |-> NoPage]
  /\ liveComps = Components
  /\ subs = [e \in Emails |-> NoSub]
  /\ anns = [a \in Announcements |-> NoAnn]
  /\ mailed = [a \in Announcements |-> {}]
  /\ emailOn = TRUE
  /\ steady = [a \in Announcements |-> {}]
  /\ since = [a \in Announcements |-> {}]

PageRequests == [slug : Slugs, domain : Domains, verified : BOOLEAN, published : BOOLEAN,
                 public : BOOLEAN, autoUpdates : BOOLEAN]

PagesNext ==
  \E g \in PageIds :
    \/ \E slug \in Slugs, d \in Domains, p \in BOOLEAN : CreateStatusPage(g, slug, d, p)
    \/ \E page \in PageRequests : UpdateStatusPage(g, page)
    \/ DeleteStatusPage(g)

MailNext ==
  \/ \E e \in Emails : (\E wants \in SUBSET Components : Subscribe(e, wants)) \/ Confirm(e) \/ Unsubscribe(e)
  \/ \E c \in Components : DeleteStatusPageComponent(c)
  \/ \E a \in Announcements :
       \/ \E about \in SUBSET Components : CreateStatusPageAnnouncement(a, about) \/ CreateDraft(a, about)
       \/ AutoCreateStatusPageIncidentUpdate(a) \/ ListStatusPageSubscribers(a)
       \/ StartSending(a) \/ MailOne(a) \/ SendingEnds(a) \/ SendingStops(a)
  \/ ChannelToggled

StatusSpec == StatusInit /\ [][PagesNext \/ MailNext]_pagesVars

------------------------------------------------------------------------------
(* Properties. *)

\* An announcement is mailed only to addresses that were confirmed when it was
\* created or became so before the list was read, about a component they chose
\* -- or, once every component they chose has been deleted, about any.  When the
\* sending comes to its end nobody was passed over who was confirmed all along
\* and chose one of its components, or none, unless a component they chose had
\* been deleted.
MailFollowsChoices ==
  \A a \in Announcements :
    /\ mailed[a] \subseteq since[a]
    /\ \A e \in mailed[a] \intersect Confirmed :
         SubscriberMatches(subs[e].chose, anns[a].about)
         \/ \E s \in anns[a].list : s.email = e /\ s.wants = {} /\ subs[e].chose \intersect liveComps = {}
    /\ anns[a].stage = "sent" =>
         {e \in steady[a] : SubscriberMatches(subs[e].chose, anns[a].about)} \subseteq
         mailed[a] \union {e \in Emails : \E s \in anns[a].list : s.email = e /\ s.wants # subs[e].chose}
=============================================================================
