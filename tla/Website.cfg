SPECIFICATION Spec
CONSTANTS
  None = None
  NoPage = NoPage
  Docs <- Slugs
  Posts <- NewsAndBlog
  Legacy <- OldSlugs
  Content <- Contents
  Stores <- SomeStores
  Browsers <- SomeBrowsers
  Visits <- SomeVisits
INVARIANT TypeOK
INVARIANT LinkOpensDoc
INVARIANT StepsSelfContained
INVARIANT OffersAgree
PROPERTY PageAnswered
