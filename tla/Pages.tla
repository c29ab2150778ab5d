------------------------------- MODULE Pages -------------------------------
(***************************************************************************)
(* Blizzard's pages: the careers, the heroes and patch notes, the page of  *)
(* one hero, the search.  They do not interact, so a behaviour looks at    *)
(* one of them.                                                            *)
(***************************************************************************)
EXTENDS CareerPages, SitePages

VARIABLE topic
pagesVars == <<careerVars, siteVars, topic>>

PagesInit == CareerInit /\ SiteInit /\ topic \in {"careers", "heroes", "hero", "search"}

PagesNext ==
  /\ UNCHANGED topic
  /\ \/ topic = "careers" /\ CareerNext /\ UNCHANGED siteVars
     \/ /\ UNCHANGED careerVars
        /\ \/ topic = "heroes" /\ HeroesNext
           \/ topic = "hero" /\ HeroPageNext
           \/ topic = "search" /\ SearchNext

PagesSpec == PagesInit /\ [][PagesNext]_pagesVars

PagesTypeOK ==
  /\ CareerTypeOK
  /\ siteEdits \in 0..MaxSiteEdits
  /\ catalogue = Slice(HeroOrder, 0, Len(catalogue))
  /\ {index[i].key : i \in DOMAIN index} = Range(Slice(HeroOrder, 0, Len(index)))
  /\ ParseHero(heroPage).status \in {200, 404, 500}
=============================================================================
