------------------------------ MODULE MCSwagger ------------------------------
(* SwaggerAssembler with two prefixes, one within the other, and kinds that *)
(* clash when they are stripped of one, of the other, or of none.           *)
EXTENDS SwaggerAssembler

CONSTANTS com, org, Car, Bus, s1, s2, s3, self

MCSegments == {com, org, Car, Bus}

MCKinds == {<<com, Car>>, <<com, org, Car>>, <<org, Car>>, <<Car>>, <<com, Bus>>}

MCFields == [k \in MCKinds |-> IF k = <<com, Bus>> THEN <<com, org, Car>> ELSE None]

MCUris == <<s1, self, s2, s3>>

MCLists == {MCUris, <<s3, s1, self, s2>>, <<s2, s3>>}

MCDescribes ==
  s1 :> <<<<com, Bus>>, <<com, Car>>>> @@ s2 :> <<<<com, Car>>, <<org, Car>>>>
  @@ s3 :> <<<<Car>>, <<com, org, Car>>, <<com, Bus>>>>

MCPrefixes == <<<<com>>, <<com, org>>>>

=============================================================================
