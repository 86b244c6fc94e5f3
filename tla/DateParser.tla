----------------------------- MODULE DateParser -----------------------------
(***************************************************************************)
(* When an item was published: DateParser in crawler/signals/              *)
(* date_parser.py.                                                         *)
(*                                                                         *)
(* What a page, a feed or a URL shows at a place is a record: a date in a  *)
(* standard format, so many hours ago, two numbers and a year, or nothing  *)
(* that can be read.  A date is a number of hours; it is optional, a       *)
(* sequence of at most one.  All time zones have a fixed offset.           *)
(***************************************************************************)
EXTENDS Integers, Sequences

-----------------------------------------------------------------------------
(* The readers *)

(* The first of several readings that is a date.                           *)
FirstOf(dates) ==
  LET found == {i \in DOMAIN dates : dates[i] # <<>>}
  IN IF found = {} THEN <<>> ELSE dates[CHOOSE i \in found : \A j \in found : i <= j]

parse_iso_or_rfc2822(shown) == IF shown.type = "date" THEN <<shown.at>> ELSE <<>>

parse_relative_date(shown, reference_time) ==
  IF shown.type = "ago" THEN <<reference_time - shown.hours>> ELSE <<>>

IsLeap(year) == year % 4 = 0 /\ (year % 100 # 0 \/ year % 400 = 0)

DaysOf(month, year) ==
  CASE month = 2               -> IF IsLeap(year) THEN 29 ELSE 28
    [] month \in {4, 6, 9, 11} -> 30
    [] OTHER                   -> 31

(* datetime(): an exception when there is no such day or hour.             *)
datetime(year, month, day, hour) ==
  IF year \in 1..9999 /\ month \in 1..12 /\ day \in 1..DaysOf(month, year) /\ hour \in 0..23
  THEN <<((year * 12 + month) * 31 + day) * 24 + hour>>
  ELSE <<>>

MonthFirst(shown) == datetime(shown.year, shown.first, shown.second, shown.hour)
DayFirst(shown)   == datetime(shown.year, shown.second, shown.first, shown.hour)

(* Faulty variant: a reading that is no date is not turned round.          *)
parse_numeric_unswapped(shown, locale) ==
  IF shown.type # "numeric" THEN <<>>
  ELSE IF locale = "en_US" THEN MonthFirst(shown) ELSE DayFirst(shown)

(* The reading of the locale, or else the other one.                       *)
parse_ambiguous_numeric(shown, locale) ==
  CASE shown.type # "numeric" -> <<>>
    [] shown.type = "numeric" /\ locale = "en_US" -> FirstOf(<<MonthFirst(shown), DayFirst(shown)>>)
    [] OTHER -> FirstOf(<<DayFirst(shown), MonthFirst(shown)>>)

(* Year, month and day in the path of a URL.                               *)
parse_url_date(shown) ==
  IF shown.type = "numeric" THEN datetime(shown.year, shown.first, shown.second, 0) ELSE <<>>

-----------------------------------------------------------------------------
(* The places, in the order they are looked at *)

(* A node is read for its modification only where the rules allow it; the  *)
(* first node with a date is taken.                                        *)
extract_from_json_ld(nodes, allow_modified) ==
  FirstOf([i \in DOMAIN nodes |->
    FirstOf(<<parse_iso_or_rfc2822(nodes[i].published),
              IF allow_modified THEN parse_iso_or_rfc2822(nodes[i].modified) ELSE <<>> >>)])

(* JSON-LD, the feed, the meta tags: those the rules prefer come first.    *)
Structured(item) ==
  FirstOf(<<extract_from_json_ld(item.nodes, item.allow_modified),
            parse_iso_or_rfc2822(item.feed),
            FirstOf([i \in DOMAIN item.meta |-> parse_iso_or_rfc2822(item.meta[i])])>>)

(* Faulty variant: what the time tag shows is read before what it says.    *)
TimeTagTextFirst(time, reference_time) ==
  FirstOf(<<parse_relative_date(time.text, reference_time),
            parse_iso_or_rfc2822(time.datetime),
            parse_iso_or_rfc2822(time.text)>>)

(* The first time tag of the page.                                         *)
TimeTag(time, reference_time) ==
  FirstOf(<<parse_iso_or_rfc2822(time.datetime),
            parse_relative_date(time.text, reference_time),
            parse_iso_or_rfc2822(time.text)>>)

(* The element the source is configured with.                              *)
Selected(element, reference_time, locale) ==
  FirstOf(<<parse_iso_or_rfc2822(element.datetime),
            parse_relative_date(element.text, reference_time),
            parse_ambiguous_numeric(element.text, locale),
            parse_iso_or_rfc2822(element.text)>>)

(* The URL is read where a pattern is configured.                          *)
extract_date(item, reference_time, locale) ==
  FirstOf(<<Structured(item),
            TimeTag(item.time, reference_time),
            Selected(item.selected, reference_time, locale),
            parse_url_date(item.url),
            parse_iso_or_rfc2822(item.sitemap)>>)

-----------------------------------------------------------------------------
(* Properties *)

(* A date in a standard form is read before anything that depends on when  *)
(* and where it is read.                                                   *)
Settled(item) ==
  \/ \E i \in DOMAIN item.nodes :
       \/ item.nodes[i].published.type = "date"
       \/ item.allow_modified /\ item.nodes[i].modified.type = "date"
  \/ item.feed.type = "date"
  \/ \E i \in DOMAIN item.meta : item.meta[i].type = "date"
  \/ item.time.datetime.type = "date"
  \/ /\ item.time.text.type # "ago"
     /\ "date" \in {item.time.text.type, item.selected.datetime.type, item.selected.text.type}
=============================================================================
