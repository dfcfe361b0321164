CONSTANT Chunks = 2
SPECIFICATION FairSpec
PROPERTY ParserUnwinds
