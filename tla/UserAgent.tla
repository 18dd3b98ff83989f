----------------------------- MODULE UserAgent -----------------------------
(***************************************************************************)
(* The os and browser tags that user_agent.rs adds to an event.            *)
(*                                                                         *)
(* A User-Agent header is the set of the markers it contains, among those  *)
(* the code looks for.  A tag's value is the family; the version that      *)
(* follows it is left out, and with it the plain os and browser tags.      *)
(***************************************************************************)
EXTENDS Naturals, Sequences

OsMarkers ==
  <<[marker |-> "Windows NT ", family |-> "Windows"],
    [marker |-> "Android ",    family |-> "Android"],
    [marker |-> "iPhone",      family |-> "iOS"],
    [marker |-> "iPad",        family |-> "iOS"],
    [marker |-> "iPod",        family |-> "iOS"],
    [marker |-> "Mac OS X",    family |-> "macOS"],
    [marker |-> "CrOS",        family |-> "Chrome OS"],
    [marker |-> "Linux",       family |-> "Linux"]>>

\* Variant: Chrome before the shells that also name themselves Chrome.
ChromeFirst ==
  <<[marker |-> "Chrome/",  family |-> "Chrome"],
    [marker |-> "Edg/",     family |-> "Edge"],
    [marker |-> "OPR/",     family |-> "Opera"],
    [marker |-> "Firefox/", family |-> "Firefox"],
    [marker |-> "CriOS/",   family |-> "Chrome"],
    [marker |-> "FxiOS/",   family |-> "Firefox"],
    [marker |-> "Safari/",  family |-> "Safari"]>>

BrowserMarkers ==
  <<[marker |-> "Edg/",     family |-> "Edge"],
    [marker |-> "OPR/",     family |-> "Opera"],
    [marker |-> "Firefox/", family |-> "Firefox"],
    [marker |-> "CriOS/",   family |-> "Chrome"],
    [marker |-> "FxiOS/",   family |-> "Firefox"],
    [marker |-> "Chrome/",  family |-> "Chrome"],
    [marker |-> "Safari/",  family |-> "Safari"]>>

\* The family of the first entry of table whose marker agent contains.
Detected(table, agent) ==
  LET hits == {i \in DOMAIN table : table[i].marker \in agent}
  IN  IF hits = {} THEN <<>>
      ELSE <<table[CHOOSE i \in hits : \A j \in hits : i <= j].family>>

\* Tags: absent, an object, or of another shape (the legacy list of pairs).
NoTags == [shape |-> "absent"]
OtherTags == [shape |-> "other"]
TagObject(entries) == [shape |-> "object", entries |-> entries]

\* parse_user_agent: families by tag key, of the keys that were detected.
Derived(agent) ==
  LET family == [key \in {"os.name", "browser.name"} |->
                   IF key = "os.name" THEN Detected(OsMarkers, agent)
                   ELSE Detected(BrowserMarkers, agent)]
  IN  [key \in {k \in DOMAIN family : family[k] # <<>>} |-> family[key][1]]

\* ensure_tags_object: tags of another shape are replaced by no entries.
EntriesOf(tags) ==
  IF tags.shape = "object" THEN tags.entries ELSE [key \in {} |-> ""]

\* entry(key).or_insert(value), for every derived tag.
Filled(tags, derived) ==
  LET own == EntriesOf(tags) IN
  [key \in DOMAIN own \cup DOMAIN derived |->
     IF key \in DOMAIN own THEN own[key] ELSE derived[key]]

\* augment_tags_from_user_agent; agent is <<>> without a header.
Augmented(tags, agent) ==
  IF agent = <<>> \/ DOMAIN Derived(agent[1]) = {} THEN tags
  ELSE TagObject(Filled(tags, Derived(agent[1])))

----------------------------------------------------------------------------
(***************************************************************************)
(* What is meant, of a browser with its markers on a system with its own.  *)
(***************************************************************************)

\* The markers that programs of a family send, as in the headers of the
\* module's tests.
Browsers ==
  [Chrome |-> {{"Chrome/", "Safari/"}, {"CriOS/", "Safari/"}},
   Edge |-> {{"Edg/", "Chrome/", "Safari/"}},
   Opera |-> {{"OPR/", "Chrome/", "Safari/"}},
   Firefox |-> {{"Firefox/"}, {"FxiOS/", "Safari/"}},
   Safari |-> {{"Safari/"}}]

Systems ==
  [Windows |-> {{"Windows NT "}},
   Android |-> {{"Android "}, {"Android ", "Linux"}},
   iOS |-> {{"iPhone", "Mac OS X"}, {"iPad", "Mac OS X"}},
   macOS |-> {{"Mac OS X"}},
   Linux |-> {{"Linux"}}]

\* Derived tags name the program and the system the header is from.
FamiliesRight ==
  \A b \in DOMAIN Browsers, s \in DOMAIN Systems :
    \A markers \in {x \cup y : x \in Browsers[b], y \in Systems[s]} :
      Derived(markers) = [key \in {"os.name", "browser.name"} |->
                            IF key = "os.name" THEN s ELSE b]

\* Tags an SDK sends as an object stay what they are, "existing tag keys win"
\* (user_agent.rs:24); tags of any shape stay when nothing is derived.  A list of
\* pairs gives way to what is derived, all of it: EntriesOf.
ObjectTagsWin ==
  /\ \A b \in DOMAIN Browsers, key \in {"os.name", "browser.name", "release"} :
       \A markers \in Browsers[b] :
         LET own == [k \in {key} |-> "Custom"]
         IN  Augmented(TagObject(own), <<markers>>).entries[key] = "Custom"
  /\ \A tags \in {NoTags, OtherTags} : \A agent \in {<<>>, <<{}>>} :
       Augmented(tags, agent) = tags
============================================================================
